---------------------------- MODULE Spec2Model ----------------------------
(***************************************************************************)
(* Model of the cold-usb wallet frontend: the session store (walletStore), *)
(* the route guard (App), the idle lock (useAutoLock), the password policy *)
(* (utils/validation), the Create / Import / Settings flows, the signing    *)
(* flow (SigningFlow) and the privacy overlay (useWindowFocus).            *)
(*                                                                         *)
(* Strings are sequences of one-character strings; a character is          *)
(* classified by its code point, as the regular expressions of the source  *)
(* classify it.  Time is counted in milliseconds.                          *)
(***************************************************************************)
EXTENDS Integers, Sequences, FiniteSets, TLC

VARIABLES
    \* walletStore (zustand)
    walletInfo, isLocked, walletExists,
    \* react-router location
    location,
    \* backend invocations in flight
    calls,
    \* useAutoLock
    timeoutRef, listening, sinceArm, sinceReset, sinceEvent,
    \* component state: UnlockWallet, CreateWallet, ImportWallet, Settings
    uw, cw, iw, st,
    \* component state: SigningFlow
    sf,
    \* component state: WalletDashboard, AddressManager
    wd, am,
    \* QRScanner: the component's state and scannerRef, the promises of
    \* unmounted scanners that are still pending, and whether a scanner holds
    \* the camera stream
    qr, qrLate, capture,
    \* useWindowFocus: the hook's state, its focus listener, and the window
    \* event it handled last
    isFocused, unlisten, windowEvent,
    \* harness of the pure password functions
    pwIn, pwOut

storeVars == <<walletInfo, isLocked, walletExists>>
timerVars == <<timeoutRef, listening, sinceArm, sinceReset, sinceEvent>>
compVars  == <<uw, cw, iw, st, sf, wd, am, qr, qrLate, capture>>
focusVars == <<isFocused, unlisten, windowEvent>>
pwVars    == <<pwIn, pwOut>>
vars      == <<walletInfo, isLocked, walletExists, location, calls,
               timeoutRef, listening, sinceArm, sinceReset, sinceEvent,
               uw, cw, iw, st, sf, wd, am, qr, qrLate, capture,
               isFocused, unlisten, windowEvent, pwIn, pwOut>>

-----------------------------------------------------------------------------
(* Strings *)

Alphabet == {"A", "B", "D", "E", "L", "T", "Z", "a", "b", "d", "e", "l", "t", "z",
             "c", "o", "r", "s", "w", "0", "1", "9", " ", "!"}

\* code point of a character
Code(c) ==
    CASE c = "A" -> 65 [] c = "B" -> 66 [] c = "Z" -> 90
      [] c = "D" -> 68 [] c = "E" -> 69 [] c = "L" -> 76 [] c = "T" -> 84
      [] c = "a" -> 97 [] c = "b" -> 98 [] c = "z" -> 122
      [] c = "d" -> 100 [] c = "e" -> 101 [] c = "l" -> 108 [] c = "t" -> 116
      [] c = "c" -> 99 [] c = "o" -> 111 [] c = "r" -> 114 [] c = "s" -> 115
      [] c = "w" -> 119
      [] c = "0" -> 48 [] c = "1" -> 49 [] c = "9" -> 57
      [] c = " " -> 32 [] c = "!" -> 33

Chr(n) == CHOOSE c \in Alphabet : Code(c) = n

IsUpperChar(c) == Code(c) >= Code("A") /\ Code(c) <= Code("Z")
IsLowerChar(c) == Code(c) >= Code("a") /\ Code(c) <= Code("z")
IsDigitChar(c) == Code(c) >= Code("0") /\ Code(c) <= Code("9")
IsSpaceChar(c) == c = " "

\* String.prototype.toLowerCase
ToLowerChar(c) == IF IsUpperChar(c) THEN Chr(Code(c) + (Code("a") - Code("A"))) ELSE c
ToLowerCase(s) == [i \in 1..Len(s) |-> ToLowerChar(s[i])]

\* String.prototype.toUpperCase
ToUpperChar(c) == IF IsLowerChar(c) THEN Chr(Code(c) - (Code("a") - Code("A"))) ELSE c
ToUpperCase(s) == [i \in 1..Len(s) |-> ToUpperChar(s[i])]

\* String.prototype.trim
RECURSIVE TrimStart(_)
TrimStart(s) ==
    IF s # <<>> /\ IsSpaceChar(Head(s)) THEN TrimStart(Tail(s)) ELSE s

RECURSIVE TrimEnd(_)
TrimEnd(s) ==
    IF s # <<>> /\ IsSpaceChar(s[Len(s)]) THEN TrimEnd(SubSeq(s, 1, Len(s) - 1)) ELSE s

Trim(s) == TrimEnd(TrimStart(s))

\* n copies of the character c
Rep(c, n) == [i \in 1..n |-> c]

\* Array.prototype.join(' ')
RECURSIVE Join(_)
Join(ws) ==
    IF ws = <<>> THEN <<>>
    ELSE IF Len(ws) = 1 THEN ws[1]
    ELSE ws[1] \o <<" ">> \o Join(Tail(ws))

\* String.prototype.split(' '): every single space separates, empty pieces kept
RECURSIVE SplitAcc(_, _, _)
SplitAcc(s, cur, acc) ==
    IF s = <<>> THEN Append(acc, cur)
    ELSE IF Head(s) = " " THEN SplitAcc(Tail(s), <<>>, Append(acc, cur))
    ELSE SplitAcc(Tail(s), Append(cur, Head(s)), acc)

Split(s) == SplitAcc(s, <<>>, <<>>)

\* String.prototype.split(/\s+/): a run of white space separates
RECURSIVE SplitWsAcc(_, _, _, _)
SplitWsAcc(s, cur, acc, inSep) ==
    IF s = <<>> THEN Append(acc, cur)
    ELSE IF IsSpaceChar(Head(s))
         THEN IF inSep THEN SplitWsAcc(Tail(s), cur, acc, TRUE)
              ELSE SplitWsAcc(Tail(s), <<>>, Append(acc, cur), TRUE)
    ELSE SplitWsAcc(Tail(s), Append(cur, Head(s)), acc, FALSE)

SplitWs(s) == SplitWsAcc(s, <<>>, <<>>, FALSE)

-----------------------------------------------------------------------------
(* utils/validation.ts *)

PASSWORD_MIN_LENGTH == 12

RuleMinLength(p)    == Len(p) >= PASSWORD_MIN_LENGTH
RuleHasUppercase(p) == \E i \in 1..Len(p) : IsUpperChar(p[i])
RuleHasLowercase(p) == \E i \in 1..Len(p) : IsLowerChar(p[i])
RuleHasNumber(p)    == \E i \in 1..Len(p) : IsDigitChar(p[i])
RuleHasSpecial(p)   ==
    \E i \in 1..Len(p) :
        ~(IsUpperChar(p[i]) \/ IsLowerChar(p[i]) \/ IsDigitChar(p[i]))

\* the aggregate of getPasswordValidationState
IsValidNeedsSpecial(s) ==
    s.minLength /\ s.hasUppercase /\ s.hasLowercase /\ s.hasNumber /\ s.hasSpecial

IsValidOf(s) ==
    s.minLength /\ s.hasUppercase /\ s.hasLowercase /\ s.hasNumber

getPasswordValidationState(p) ==
    LET state == [minLength    |-> RuleMinLength(p),
                  hasUppercase |-> RuleHasUppercase(p),
                  hasLowercase |-> RuleHasLowercase(p),
                  hasNumber    |-> RuleHasNumber(p),
                  hasSpecial   |-> RuleHasSpecial(p)]
    IN  [minLength    |-> state.minLength,
         hasUppercase |-> state.hasUppercase,
         hasLowercase |-> state.hasLowercase,
         hasNumber    |-> state.hasNumber,
         hasSpecial   |-> state.hasSpecial,
         isValid      |-> IsValidOf(state)]

\* the points of getPasswordStrength without the one for the length rule
StrengthScoreWithoutLength(p) ==
    (IF RuleHasUppercase(p) THEN 1 ELSE 0) + (IF RuleHasLowercase(p) THEN 1 ELSE 0)
      + (IF RuleHasNumber(p) THEN 1 ELSE 0) + (IF RuleHasSpecial(p) THEN 1 ELSE 0)
      + (IF Len(p) >= 16 THEN 1 ELSE 0)

\* let score = 0; if (...) score++ six times
StrengthScore(p) ==
    (IF RuleMinLength(p) THEN 1 ELSE 0)
      + (IF RuleHasUppercase(p) THEN 1 ELSE 0) + (IF RuleHasLowercase(p) THEN 1 ELSE 0)
      + (IF RuleHasNumber(p) THEN 1 ELSE 0) + (IF RuleHasSpecial(p) THEN 1 ELSE 0)
      + (IF Len(p) >= 16 THEN 1 ELSE 0)

\* the label thresholds moved down by one
StrengthBandLow(score) ==
    IF score < 2 THEN [score |-> score, label |-> "Weak", color |-> "text-alert-red"]
    ELSE IF score < 3
         THEN [score |-> score, label |-> "Fair", color |-> "text-bitcoin-orange"]
    ELSE IF score < 4
         THEN [score |-> score, label |-> "Good", color |-> "text-terminal-green"]
    ELSE [score |-> score, label |-> "Strong", color |-> "text-terminal-green"]

\* the label and colour returned for a computed score
StrengthBand(score) ==
    IF score < 3 THEN [score |-> score, label |-> "Weak", color |-> "text-alert-red"]
    ELSE IF score < 4
         THEN [score |-> score, label |-> "Fair", color |-> "text-bitcoin-orange"]
    ELSE IF score < 5
         THEN [score |-> score, label |-> "Good", color |-> "text-terminal-green"]
    ELSE [score |-> score, label |-> "Strong", color |-> "text-terminal-green"]

getPasswordStrength(p) ==
    IF Len(p) = 0 THEN [score |-> 0, label |-> "", color |-> ""]
    ELSE IF Len(p) < 8
         THEN [score |-> 1, label |-> "Too short", color |-> "text-alert-red"]
    ELSE StrengthBand(StrengthScore(p))


-----------------------------------------------------------------------------
(* Bounds *)

\* highest address index the + button is followed to
MaxIndex == 2

\* start() promises of one scanner that may be pending together
MaxStarts == 1

\* backend invocations that may be in flight together
MaxCalls == 2

-----------------------------------------------------------------------------
(* App: the route guard *)

Paths == {"/", "/create", "/import", "/unlock", "/dashboard", "/addresses",
          "/sign", "/settings", "/other"}

Navigate(to) == [element |-> "Navigate", to |-> to]
Element(name) == [element |-> name, to |-> ""]

\* the unlock route as declared: inside the wallet-exists block, outside the
\* isLocked conditional
UnlockRoute(locked) == Element("UnlockWallet")

\* the routes declared while no wallet exists
SetupRoutes(path) ==
    CASE path = "/"       -> Element("WalletSetup")
      [] path = "/create" -> Element("CreateWallet")
      [] path = "/import" -> Element("ImportWallet")
      [] OTHER            -> Navigate("/")

\* the protected routes, declared while the wallet is unlocked
ProtectedRoutes(path) ==
    CASE path = "/dashboard" -> Element("WalletDashboard")
      [] path = "/addresses" -> Element("AddressManager")
      [] path = "/sign"      -> Element("SigningFlow")
      [] path = "/settings"  -> Element("Settings")
      [] OTHER               -> Navigate("/dashboard")

\* the wallet-exists routes with the isLocked conditional left out
MainRoutesUnguarded(path, locked) ==
    IF path = "/unlock" THEN UnlockRoute(locked) ELSE ProtectedRoutes(path)

\* the routes declared while a wallet exists
MainRoutes(path, locked) ==
    IF path = "/unlock" THEN UnlockRoute(locked)
    ELSE IF locked THEN Navigate("/unlock")
    ELSE ProtectedRoutes(path)

\* <Routes>: the element matched for a path (exists is "true" or "false")
RouteElement(path, exists, locked) ==
    IF exists = "false" THEN SetupRoutes(path) ELSE MainRoutes(path, locked)

\* the location after the <Navigate replace> elements have run
RECURSIVE ResolveLocation(_, _, _)
ResolveLocation(path, exists, locked) ==
    LET e == RouteElement(path, exists, locked)
    IN  IF e.element = "Navigate" THEN ResolveLocation(e.to, exists, locked) ELSE path

\* what App renders
ScreenOf(path, exists, locked) ==
    IF exists = "null" THEN "Loading"
    ELSE RouteElement(ResolveLocation(path, exists, locked), exists, locked).element

Screen == ScreenOf(location, walletExists, isLocked)

\* the screens wrapped in <Layout>, which carries the Lock button
LayoutScreens == {"WalletDashboard", "AddressManager", "SigningFlow", "Settings"}

-----------------------------------------------------------------------------
(* Backend invocations *)

NoArg == [none |-> TRUE]

FreeId == CHOOSE i \in 1..(Cardinality(calls) + 1) : \A c \in calls : c.id # i

CanCall == Cardinality(calls) < MaxCalls

NewCall(cmd, from, arg) ==
    [id |-> FreeId, cmd |-> cmd, from |-> from, live |-> TRUE, arg |-> arg]

\* wallet metadata the backend may return
Infos == {"info1"}

-----------------------------------------------------------------------------
(* Component state *)

Unmounted == [mounted |-> FALSE]

EmptyStr == <<>>

UwInit ==
    [mounted |-> TRUE, password |-> EmptyStr, error |-> "", loading |-> FALSE,
     showDeleteModal |-> FALSE, deleteConfirmText |-> EmptyStr, deleting |-> FALSE]

CwInit ==
    [mounted |-> TRUE, step |-> "options", wordCount |-> 24,
     passphrase |-> EmptyStr, usePassphrase |-> FALSE,
     seedWords |-> <<>>, confirmWords |-> <<>>,
     userConfirmWords |-> <<EmptyStr, EmptyStr, EmptyStr>>,
     password |-> EmptyStr, confirmPassword |-> EmptyStr,
     error |-> "", loading |-> FALSE, hung |-> FALSE,
     generated |-> "never"]

IwInit ==
    [mounted |-> TRUE, step |-> "words", wordCount |-> 24,
     words |-> [i \in 1..24 |-> EmptyStr],
     usePassphrase |-> FALSE, passphrase |-> EmptyStr,
     password |-> EmptyStr, confirmPassword |-> EmptyStr,
     error |-> "", loading |-> FALSE]

StInit ==
    [mounted |-> TRUE, showPasswordModal |-> FALSE,
     currentPassword |-> EmptyStr, newPassword |-> EmptyStr,
     confirmPassword |-> EmptyStr, passwordError |-> "",
     passwordLoading |-> FALSE, passwordSuccess |-> FALSE, closeTimer |-> FALSE]

\* SigningFlow; scanning is the isScanning state of the QRScanner it renders
SfInit ==
    [mounted |-> TRUE, step |-> "input", inputMode |-> "scan",
     psbtInput |-> EmptyStr, psbtFormat |-> "base64",
     psbtDetails |-> "null", signedResult |-> "null",
     error |-> "", loading |-> FALSE, scanning |-> FALSE, reviewed |-> NoArg]

WdInit ==
    [mounted |-> TRUE, showSeedModal |-> FALSE, seedPassword |-> EmptyStr,
     seedPhrase |-> "null", seedError |-> "", seedLoading |-> FALSE]

AmInit ==
    [mounted |-> TRUE, addressType |-> "receive", index |-> 0, address |-> NoArg,
     loading |-> FALSE, error |-> "null"]

QrUnmounted == [mounted |-> FALSE]

\* QRScanner just mounted: the camera check effect has called hasCamera
QrInit ==
    [mounted |-> TRUE, cameraStatus |-> "checking", probe |-> "hasCamera",
     scanner |-> "null", active |-> FALSE, starts |-> 0, error |-> "null"]

\* SigningFlow renders <QRScanner> on the input step in scan mode
QrRendered(s) == s.mounted /\ s.step = "input" /\ s.inputMode = "scan"

\* the promises of a scanner that are pending when it unmounts; onError of a
\* failed start still reaches the SigningFlow that rendered the scanner
QrPending(q) ==
    (IF q.probe # "done" THEN {[kind |-> q.probe, parent |-> TRUE]} ELSE {})
      \cup (IF q.starts > 0 THEN {[kind |-> "start", parent |-> TRUE]} ELSE {})

\* the cleanup without its stop() and destroy()
QrCleanupSkipped(q, cap) == cap

\* the effect cleanup: scannerRef.current.stop() and destroy() release the stream
QrCleanup(q, cap) == IF q.scanner # "null" THEN FALSE ELSE cap

\* QRScanner across a render of SigningFlow from sfOld to sfNew
QrFollow(sfOld, sfNew, q, cap) ==
    LET late == IF sfOld.mounted /\ ~sfNew.mounted
                THEN {[l EXCEPT !.parent = FALSE] : l \in qrLate} ELSE qrLate
    IN  IF QrRendered(sfOld) /\ ~QrRendered(sfNew)
        THEN /\ qr' = QrUnmounted
             /\ qrLate' = late \cup
                    {IF sfNew.mounted THEN l ELSE [l EXCEPT !.parent = FALSE] :
                         l \in QrPending(q)}
             /\ capture' = QrCleanup(q, cap)
        ELSE IF ~QrRendered(sfOld) /\ QrRendered(sfNew)
        THEN qr' = QrInit /\ qrLate' = late /\ capture' = cap
        ELSE qr' = q /\ qrLate' = late /\ capture' = cap

\* a component's state after a render: kept while its screen stays, initial
\* when its screen is entered, gone when its screen is left
Remount(name, old, new, next, init) ==
    IF new # name THEN Unmounted
    ELSE IF old = name THEN next ELSE init

\* the screen a call's issuer lives on ("" for callers that never unmount)
IssuerScreen(from) ==
    CASE from = "UnlockWallet" -> "UnlockWallet"
      [] from = "CreateWallet" -> "CreateWallet"
      [] from = "ImportWallet" -> "ImportWallet"
      [] from = "Settings"     -> "Settings"
      [] from = "SigningFlow"  -> "SigningFlow"
      [] from = "WalletDashboard" -> "WalletDashboard"
      [] from = "AddressManager"  -> "AddressManager"
      [] OTHER                 -> ""

\* every call keeps its component
OrphanNone(cs, new) == cs

\* calls whose issuer is unmounted by the render lose their component
Orphan(cs, new) ==
    { IF \/ IssuerScreen(c.from) # "" /\ IssuerScreen(c.from) # new
         \/ c.from = "useAutoLock" /\ isLocked' # isLocked
      THEN [c EXCEPT !.live = FALSE] ELSE c : c \in cs }

\* One render and commit after a handler: the store and the requested path are
\* given (primed store variables are set by the caller); the Navigate elements
\* run, components mount and unmount.
Render(path, cs, uwN, cwN, iwN, stN) ==
    /\ location' = IF walletExists' = "null" THEN path
                   ELSE ResolveLocation(path, walletExists', isLocked')
    /\ LET old == Screen
           new == ScreenOf(location', walletExists', isLocked')
       IN  /\ uw' = Remount("UnlockWallet", old, new, uwN, UwInit)
           /\ cw' = Remount("CreateWallet", old, new, cwN, CwInit)
           /\ iw' = Remount("ImportWallet", old, new, iwN, IwInit)
           /\ st' = Remount("Settings", old, new, stN, StInit)
           /\ sf' = Remount("SigningFlow", old, new, sf, SfInit)
           /\ wd' = Remount("WalletDashboard", old, new, wd, WdInit)
           /\ am' = Remount("AddressManager", old, new, am, AmInit)
           /\ QrFollow(sf, sf', qr, capture)
           /\ calls' = Orphan(cs, new)

\* a handler that changes neither the store nor the location
Local(cs, uwN, cwN, iwN, stN) ==
    /\ UNCHANGED <<storeVars, location>>
    /\ uw' = uwN /\ cw' = cwN /\ iw' = iwN /\ st' = stN
    /\ UNCHANGED <<sf, wd, am, qr, qrLate, capture>>
    /\ calls' = cs

-----------------------------------------------------------------------------
(* useAutoLock *)

AUTO_LOCK_TIMEOUT == 5 * 60 * 1000

\* the throttle window of throttledReset
THROTTLE_MS == 1000

Min(a, b) == IF a < b THEN a ELSE b

\* "now - lastReset" after lastReset = 0: larger than any window
LongAgo == THROTTLE_MS + 1

\* a delay two throttle windows short of the timeout
ShortDelay == AUTO_LOCK_TIMEOUT - 2 * THROTTLE_MS

\* resetTimer, called with the wallet unlocked: any pending timeout is cleared
\* and a new one is set
ResetTimerDelay == AUTO_LOCK_TIMEOUT

\* elapsed time at which the pending timeout runs its callback
TimerDue == sinceArm >= ResetTimerDelay

\* throttledReset lets an event through when more than the window has passed
ThrottlePasses == sinceReset > THROTTLE_MS

\* the locked branch without its clearTimeout
EffectLockedKeepsTimer ==
    /\ listening' = FALSE
    /\ UNCHANGED <<timeoutRef, sinceArm, sinceReset, sinceEvent>>

\* the effect's branch for a locked wallet (after the cleanup of the previous
\* run): listeners removed, pending timeout cleared, ref set to null
EffectLocked ==
    /\ listening' = FALSE
    /\ timeoutRef' = "null"
    /\ sinceArm' = 0
    /\ sinceReset' = LongAgo
    /\ sinceEvent' = AUTO_LOCK_TIMEOUT

\* the effect's branch for an unlocked wallet: listeners added, lastReset = 0,
\* initial resetTimer()
EffectUnlocked ==
    /\ listening' = TRUE
    /\ timeoutRef' = "pending"
    /\ sinceArm' = 0
    /\ sinceReset' = LongAgo
    /\ sinceEvent' = AUTO_LOCK_TIMEOUT

\* useEffect(..., [isLocked, resetTimer]) after a store change
AutoLockEffect ==
    IF isLocked' = isLocked
    THEN UNCHANGED <<timeoutRef, listening, sinceArm, sinceReset, sinceEvent>>
    ELSE IF isLocked' THEN EffectLocked ELSE EffectUnlocked


\* a store change followed by the render it causes and the effects of that render
Commit(path, cs, uwN, cwN, iwN, stN) ==
    /\ Render(path, cs, uwN, cwN, iwN, stN)
    /\ AutoLockEffect
    /\ UNCHANGED <<pwVars, focusVars>>

\* a handler that touches only component state
Handler(cs, uwN, cwN, iwN, stN) ==
    /\ Local(cs, uwN, cwN, iwN, stN)
    /\ UNCHANGED <<timerVars, pwVars, focusVars>>

-----------------------------------------------------------------------------
(* Inputs *)

\* what the user may type into the unlock password field
UnlockPasswords == {EmptyStr, <<"a">>}

\* what the user may type into the delete confirmation field
DeleteTexts == {<<"d","e","l","e","t","e">>, <<"a">>}

\* steps by which the clock advances outside the idle-timer study
CoarseSteps == {AUTO_LOCK_TIMEOUT}

\* steps by which the clock advances in the idle-timer study
FineSteps == {THROTTLE_MS, AUTO_LOCK_TIMEOUT - 2 * THROTTLE_MS}

\* the instants, counted from an arming or an event, at which the clock is
\* looked at: around the throttle window and around the expiry
ClockMarks ==
    {0, THROTTLE_MS, 2 * THROTTLE_MS, AUTO_LOCK_TIMEOUT - 2 * THROTTLE_MS,
     AUTO_LOCK_TIMEOUT - THROTTLE_MS, AUTO_LOCK_TIMEOUT}

-----------------------------------------------------------------------------
(* App: wallet-existence check on mount *)

\* checkWalletExists resolved, or rejected and caught by checkWallet
CheckWalletResolve ==
    \E c \in calls, r \in {"true", "false", "error"} :
        /\ c.cmd = "wallet_exists"
        /\ walletExists' = IF r = "error" THEN "false" ELSE r
        /\ UNCHANGED <<walletInfo, isLocked>>
        /\ Commit(location, calls \ {c}, uw, cw, iw, st)

\* a path requested through the history or a link
RequestPath ==
    \E p \in Paths :
        /\ UNCHANGED storeVars
        /\ Commit(p, calls, uw, cw, iw, st)

-----------------------------------------------------------------------------
(* UnlockWallet *)

UwShown == Screen = "UnlockWallet" /\ uw.mounted

UwSetPassword ==
    \E v \in UnlockPasswords :
        /\ UwShown /\ ~uw.loading
        /\ Handler(calls, [uw EXCEPT !.password = v], cw, iw, st)

\* handleUnlock, from the Unlock button or the Enter key
UwUnlock ==
    /\ UwShown /\ ~uw.loading /\ uw.password # EmptyStr
    /\ CanCall
    /\ Handler(calls \cup {NewCall("unlock_wallet", "UnlockWallet", [password |-> uw.password])},
               [uw EXCEPT !.loading = TRUE, !.error = ""], cw, iw, st)

\* unlockWallet (store) resolved, then navigate('/dashboard')
UnlockResolveOk ==
    \E c \in calls, info \in Infos :
        /\ c.cmd = "unlock_wallet"
        /\ walletInfo' = info /\ isLocked' = FALSE
        /\ UNCHANGED walletExists
        /\ Commit("/dashboard", calls \ {c}, uw, cw, iw, st)

\* unlockWallet rejected: handleUnlock's catch
UnlockResolveErr ==
    \E c \in calls :
        /\ c.cmd = "unlock_wallet"
        /\ Handler(calls \ {c},
                   IF c.live THEN [uw EXCEPT !.error = "Invalid password", !.loading = FALSE]
                   ELSE uw,
                   cw, iw, st)

UwOpenDeleteModal ==
    /\ UwShown /\ ~uw.loading /\ ~uw.showDeleteModal
    /\ Handler(calls, [uw EXCEPT !.showDeleteModal = TRUE], cw, iw, st)

UwSetDeleteConfirmText ==
    \E v \in DeleteTexts :
        /\ UwShown /\ ~uw.loading /\ uw.showDeleteModal
        /\ Handler(calls, [uw EXCEPT !.deleteConfirmText = ToUpperCase(v)], cw, iw, st)

\* closeDeleteModal, from Cancel (disabled while deleting) or the backdrop
UwCloseDeleteModal ==
    /\ UwShown /\ ~uw.loading /\ uw.showDeleteModal
    /\ Handler(calls, [uw EXCEPT !.showDeleteModal = FALSE, !.deleteConfirmText = EmptyStr],
               cw, iw, st)

\* handleDeleteWallet
UwDeleteWallet ==
    /\ UwShown /\ ~uw.loading /\ uw.showDeleteModal
    /\ uw.deleteConfirmText = <<"D","E","L","E","T","E">> /\ ~uw.deleting
    /\ CanCall
    /\ Handler(calls \cup {NewCall("delete_wallet", "UnlockWallet", NoArg)},
               [uw EXCEPT !.deleting = TRUE], cw, iw, st)

\* deleteWallet (store) resolved, then navigate('/')
DeleteResolveOk ==
    \E c \in calls :
        /\ c.cmd = "delete_wallet"
        /\ walletInfo' = "null" /\ isLocked' = TRUE /\ walletExists' = "false"
        /\ Commit("/", calls \ {c}, uw, cw, iw, st)

DeleteResolveErr ==
    \E c \in calls :
        /\ c.cmd = "delete_wallet"
        /\ Handler(calls \ {c},
                   IF c.live THEN [uw EXCEPT !.error = "Failed to delete wallet", !.deleting = FALSE]
                   ELSE uw,
                   cw, iw, st)

-----------------------------------------------------------------------------
(* Layout / TopBar: manual lock; walletStore.lockWallet *)

LockClick ==
    /\ Screen \in LayoutScreens /\ ~isLocked
    /\ CanCall
    /\ Handler(calls \cup {NewCall("lock_wallet", "TopBar", NoArg)}, uw, cw, iw, st)

\* lockWallet resolved: set({ isLocked: true })
LockResolveOk ==
    \E c \in calls :
        /\ c.cmd = "lock_wallet"
        /\ isLocked' = TRUE
        /\ UNCHANGED <<walletInfo, walletExists>>
        /\ Commit(location, calls \ {c}, uw, cw, iw, st)

\* lockWallet rejected: the store is not touched (the timer callback logs it)
LockResolveErr ==
    \E c \in calls :
        /\ c.cmd = "lock_wallet"
        /\ Handler(calls \ {c}, uw, cw, iw, st)

-----------------------------------------------------------------------------
(* useAutoLock: events, the timeout, the clock *)

\* throttledReset on mousedown, keydown, touchstart, mousemove or scroll
ActivityEvent ==
    /\ listening
    /\ sinceEvent' = 0
    /\ IF ThrottlePasses
       THEN /\ sinceReset' = 0
            /\ timeoutRef' = "pending"
            /\ sinceArm' = 0
       ELSE UNCHANGED <<sinceReset, timeoutRef, sinceArm>>
    /\ UNCHANGED <<listening, storeVars, location, calls, compVars, pwVars, focusVars>>

\* the timeout callback: await lockWallet()
TimerFire ==
    /\ timeoutRef = "pending" /\ TimerDue
    /\ CanCall
    /\ timeoutRef' = "fired"
    /\ calls' = calls \cup {NewCall("lock_wallet", "useAutoLock", NoArg)}
    /\ UNCHANGED <<listening, sinceArm, sinceReset, sinceEvent,
                   storeVars, location, compVars, pwVars, focusVars>>

\* d milliseconds pass; a due timeout runs before more time passes
Tick(d) ==
    /\ listening
    /\ ~(timeoutRef = "pending" /\ TimerDue)
    /\ sinceArm' = IF timeoutRef = "pending"
                   THEN Min(sinceArm + d, AUTO_LOCK_TIMEOUT) ELSE sinceArm
    /\ sinceReset' = Min(sinceReset + d, LongAgo)
    /\ sinceEvent' = Min(sinceEvent + d, AUTO_LOCK_TIMEOUT)
    /\ sinceArm' # sinceArm \/ sinceReset' # sinceReset \/ sinceEvent' # sinceEvent
    /\ sinceArm' \in ClockMarks /\ sinceEvent' \in ClockMarks
    /\ UNCHANGED <<timeoutRef, listening, storeVars, location, calls, compVars, pwVars, focusVars>>

TickCoarse == \E d \in CoarseSteps : Tick(d)
TickFine   == \E d \in FineSteps : Tick(d)

-----------------------------------------------------------------------------
(* CreateWallet *)

\* mnemonics the backend may generate, by word count (BIP39 words are lower case)
Vocabulary == <<<<"a","b">>, <<"b","a">>, <<"a">>>>
MnemonicWords(n) == [i \in 1..n |-> Vocabulary[((i - 1) % 3) + 1]]
Mnemonics(n) == {Join(MnemonicWords(n))}

\* what the user may type into a passphrase field
PassphraseInputs == {EmptyStr, <<"z">>}

\* what the user may type into a confirmation-word field
ConfirmInputs == {EmptyStr, <<"a","b">>, <<" ","B","a">>, <<"a">>}

\* what the user may type into a password or confirmation field
ValidPassword == <<"A","a","9">> \o Rep("a", 9)
ShortPassword == <<"A","a","9">>
PasswordInputs == {ValidPassword, ShortPassword}

\* values of Math.random(), as numerators over 24
RandomNumerators == {0, 2, 13, 23}

\* Math.floor(Math.random() * n)
RandomIndex(k, n) == (k * n) \div 24

\* Array.prototype.sort((a, b) => a - b) on a sequence of numbers
RECURSIVE InsertSorted(_, _)
InsertSorted(x, s) ==
    IF s = <<>> THEN <<x>>
    ELSE IF x - Head(s) <= 0 THEN <<x>> \o s
    ELSE <<Head(s)>> \o InsertSorted(x, Tail(s))

RECURSIVE SortNumbers(_)
SortNumbers(s) == IF s = <<>> THEN <<>> ELSE InsertSorted(Head(s), SortNumbers(Tail(s)))

InsertionOrder(positions) == positions

\* sortedPositions of the confirm-word effect
SortedPositions(positions) == SortNumbers(positions)

\* the words asked for, from the positions in the order the Set holds them
ConfirmWordsFor(positions, seedWords) ==
    LET sorted == SortedPositions(positions)
    IN  [i \in 1..Len(sorted) |-> [position |-> sorted[i], word |-> seedWords[sorted[i] + 1]]]

\* the contents a Set of 3 positions can end with after the sampling loop, in
\* insertion order
SampledPositions(n) ==
    LET idx == {RandomIndex(k, n) : k \in RandomNumerators}
    IN  {t \in idx \X idx \X idx : t[1] # t[2] /\ t[1] # t[3] /\ t[2] # t[3]}

\* the sampling loop ends only if 3 distinct indexes can be drawn
SamplingEnds(n) == n >= 3

CwShown == Screen = "CreateWallet" /\ cw.mounted /\ ~cw.hung

\* the two effects that run after a render in which step changed:
\* seed generation on display-seed, sampling on confirm-seed
\* the seed effect without its guard on seedWords
CwNeedsGenerateAlways(c) == c.step = "display-seed"

CwNeedsGenerate(c) == c.step = "display-seed" /\ Len(c.seedWords) = 0

\* generated records how often this session has called generateSeed:
\* "never", "once" or "again"
CwSeedEffect(c) ==
    IF CwNeedsGenerate(c)
    THEN [c EXCEPT !.loading = TRUE, !.error = "",
                   !.generated = IF c.generated = "never" THEN "once" ELSE "again"]
    ELSE c

CwSeedCalls(c) ==
    IF CwNeedsGenerate(c)
    THEN {NewCall("generate_mnemonic_cmd", "CreateWallet", [wordCount |-> c.wordCount])}
    ELSE {}

CwNeedsSample(c) == c.step = "confirm-seed" /\ Len(c.confirmWords) = 0

CwSampleResults(c) ==
    IF ~CwNeedsSample(c) THEN {c}
    ELSE IF ~SamplingEnds(Len(c.seedWords)) THEN {[c EXCEPT !.hung = TRUE]}
    ELSE {[c EXCEPT !.confirmWords = ConfirmWordsFor(ps, c.seedWords)] :
            ps \in SampledPositions(Len(c.seedWords))}

\* setStep(next) with the handler's other updates in c, then the effects
CwGoto(c) ==
    /\ CwNeedsGenerate(c) => CanCall
    /\ \E c2 \in CwSampleResults(c) :
           Handler(calls \cup CwSeedCalls(c), uw, CwSeedEffect(c2), iw, st)

CwSetWordCount(counts) ==
    \E n \in counts :
        /\ CwShown /\ cw.step = "options"
        /\ Handler(calls, uw, [cw EXCEPT !.wordCount = n], iw, st)

\* the toggle offered on the passphrase step as well
CwToggleUsePassphraseAnywhere ==
    /\ CwShown /\ cw.step \in {"options", "passphrase"}
    /\ Handler(calls, uw, [cw EXCEPT !.usePassphrase = ~cw.usePassphrase], iw, st)

\* the BIP39 Passphrase button of the options step
CwToggleUsePassphrase ==
    /\ CwShown /\ cw.step = "options"
    /\ Handler(calls, uw, [cw EXCEPT !.usePassphrase = ~cw.usePassphrase], iw, st)

CwOptionsContinue ==
    /\ CwShown /\ cw.step = "options"
    /\ CwGoto([cw EXCEPT !.step = IF cw.usePassphrase THEN "passphrase" ELSE "display-seed"])

CwCancel ==
    /\ CwShown /\ cw.step = "options"
    /\ UNCHANGED storeVars
    /\ Commit("/", calls, uw, cw, iw, st)

CwSetPassphrase(inputs) ==
    \E v \in inputs :
        /\ CwShown /\ cw.step = "passphrase"
        /\ Handler(calls, uw, [cw EXCEPT !.passphrase = v], iw, st)

CwPassphraseContinue ==
    /\ CwShown /\ cw.step = "passphrase"
    /\ ~(cw.usePassphrase /\ Len(cw.passphrase) = 0)
    /\ CwGoto([cw EXCEPT !.step = "display-seed"])

CwPassphraseBack ==
    /\ CwShown /\ cw.step = "passphrase"
    /\ CwGoto([cw EXCEPT !.step = "options"])

\* "I Have Written Down My Seed Phrase"
CwSeedWritten ==
    /\ CwShown /\ cw.step = "display-seed" /\ ~cw.loading
    /\ CwGoto([cw EXCEPT !.step = "confirm-seed"])

CwDisplayBack ==
    /\ CwShown /\ cw.step = "display-seed" /\ ~cw.loading
    /\ CwGoto([cw EXCEPT !.step = "options"])

CwSetConfirmWord(inputs) ==
    \E idx \in 1..3, v \in inputs :
        /\ CwShown /\ cw.step = "confirm-seed"
        /\ idx <= Len(cw.confirmWords)
        /\ Handler(calls, uw, [cw EXCEPT !.userConfirmWords[idx] = v], iw, st)

\* the comparison of one entered word with its target
WordExact(entered, target) == entered = target

WordMatches(entered, target) == ToLowerCase(Trim(entered)) = ToLowerCase(target)

\* isValid of handleConfirmSeed
SeedConfirmed(c) ==
    \A idx \in 1..Len(c.confirmWords) :
        WordMatches(c.userConfirmWords[idx], c.confirmWords[idx].word)

\* the Confirm button is disabled while an entered word is blank
ConfirmDisabled(c) == \E i \in 1..3 : Len(Trim(c.userConfirmWords[i])) = 0

MismatchError == "Words do not match. Please try again."

\* handleConfirmSeed
CwConfirm ==
    /\ CwShown /\ cw.step = "confirm-seed" /\ ~ConfirmDisabled(cw)
    /\ IF SeedConfirmed(cw)
       THEN CwGoto([cw EXCEPT !.step = "password", !.error = ""])
       ELSE Handler(calls, uw, [cw EXCEPT !.error = MismatchError], iw, st)

CwConfirmBack ==
    /\ CwShown /\ cw.step = "confirm-seed"
    /\ CwGoto([cw EXCEPT !.step = "display-seed",
                         !.userConfirmWords = <<EmptyStr, EmptyStr, EmptyStr>>,
                         !.error = ""])

CwSetPassword(inputs) ==
    \E v \in inputs :
        /\ CwShown /\ cw.step = "password"
        /\ Handler(calls, uw, [cw EXCEPT !.password = v], iw, st)

CwSetConfirmPassword(inputs) ==
    \E v \in inputs :
        /\ CwShown /\ cw.step = "password"
        /\ Handler(calls, uw, [cw EXCEPT !.confirmPassword = v], iw, st)

PasswordOnlyValid(password, confirmPassword) ==
    getPasswordValidationState(password).isValid

\* isPasswordValid / isNewPasswordValid
isPasswordValid(password, confirmPassword) ==
    getPasswordValidationState(password).isValid /\ password = confirmPassword

\* handleCreateWallet, from the Create Wallet button
CwCreateWallet ==
    /\ CwShown /\ cw.step = "password"
    /\ isPasswordValid(cw.password, cw.confirmPassword) /\ ~cw.loading
    /\ CanCall
    /\ Handler(calls \cup {NewCall("import_wallet", "CreateWallet",
                   [mnemonic |-> Join(cw.seedWords),
                    passphrase |-> IF cw.usePassphrase THEN <<cw.passphrase>> ELSE <<>>,
                    password |-> cw.password,
                    confirmPassword |-> cw.confirmPassword])},
               uw, [cw EXCEPT !.loading = TRUE, !.error = ""], iw, st)

CwPasswordBack ==
    /\ CwShown /\ cw.step = "password"
    /\ CwGoto([cw EXCEPT !.step = "confirm-seed"])

\* generateSeed after the backend answered
GenerateResolveOk ==
    \E c \in calls :
        /\ c.cmd = "generate_mnemonic_cmd"
        /\ \E m \in Mnemonics(c.arg.wordCount) :
               Handler(calls \ {c}, uw,
                       IF c.live THEN [cw EXCEPT !.seedWords = Split(m), !.loading = FALSE]
                       ELSE cw,
                       iw, st)

GenerateResolveErr ==
    \E c \in calls :
        /\ c.cmd = "generate_mnemonic_cmd"
        /\ Handler(calls \ {c}, uw,
                   IF c.live THEN [cw EXCEPT !.error = "Failed to generate seed",
                                             !.loading = FALSE]
                   ELSE cw,
                   iw, st)

-----------------------------------------------------------------------------
(* ImportWallet *)

\* mnemonics the backend validator accepts: the ones it generates
ValidMnemonics == Mnemonics(12) \cup Mnemonics(24)

\* validate_mnemonic as a function of the string it is given
ValidateAnswer(mnemonic) == mnemonic \in ValidMnemonics

\* clipboard texts: 24 valid words in upper case with stray white space, 12
\* valid words followed by a 13th, 11 words
PasteTexts ==
    {<<" ">> \o ToUpperCase(Join(MnemonicWords(24))) \o <<" ", " ">>,
     Join(MnemonicWords(12)) \o <<" ", " ", "z">>,
     Join(MnemonicWords(11))}

\* clipboard texts of the paste study: the same, 12 words, and 25 words in
\* upper case
PasteStudyTexts ==
    PasteTexts \cup {Join(MnemonicWords(12)),
                     ToUpperCase(Join(MnemonicWords(24))) \o <<" ", "Z">>}

\* the word fields the user types into, and what is typed
EditSlots == {1}
WordInputs == {<<"z">>, <<" ", "A", "b">>}

Blanks(n) == [i \in 1..n |-> EmptyStr]

\* words.slice(0, wordCount).join(' ')
IwCandidate(c) == Join(SubSeq(c.words, 1, c.wordCount))

\* filledWords
IwFilledWords(c) == Cardinality({i \in 1..c.wordCount : Len(c.words[i]) > 0})

\* the effect on [wordCount]
IwWordCountEffect(words, n) ==
    IF n = 12 THEN SubSeq(words, 1, 12)
    ELSE SubSeq(words \o Blanks(24 - Len(words)), 1, 24)

\* setWordCount(n) and, when the count changed, the effect
IwWithWordCount(c, words, n) ==
    [c EXCEPT !.wordCount = n,
              !.words = IF n # c.wordCount THEN IwWordCountEffect(words, n) ELSE words]

IwShown == Screen = "ImportWallet" /\ iw.mounted

IwSetWordCount(counts) ==
    \E n \in counts :
        /\ IwShown /\ iw.step = "words"
        /\ Handler(calls, uw, cw, IwWithWordCount(iw, iw.words, n), st)

\* handleWordChange
IwWordChange(slots, inputs) ==
    \E idx \in slots, v \in inputs :
        /\ IwShown /\ iw.step = "words" /\ idx <= iw.wordCount
        /\ Handler(calls, uw, cw, [iw EXCEPT !.words[idx] = Trim(ToLowerCase(v))], st)

\* pastedText.trim().toLowerCase().split(/\s+/)
PastedTable == [t \in PasteStudyTexts |-> SplitWs(ToLowerCase(Trim(t)))]
PastedWords(text) == PastedTable[text]

\* the count with the 24 words themselves taken for 12
PasteCountAbove(n) == IF n > 24 THEN 24 ELSE 12

\* count of handlePaste, for n pasted words
PasteCount(n) == IF n >= 24 THEN 24 ELSE 12

\* handlePaste
IwPaste(texts) ==
    \E text \in texts :
        /\ IwShown /\ iw.step = "words"
        /\ LET pastedWords == PastedWords(text)
               count == PasteCount(Len(pastedWords))
           IN  Handler(calls, uw, cw,
                       IF Len(pastedWords) >= 12
                       THEN IwWithWordCount(iw,
                                SubSeq(SubSeq(pastedWords, 1, count) \o Blanks(24 - count), 1, 24),
                                count)
                       ELSE iw,
                       st)

\* handleContinueToPassphrase up to the await in validateWords
IwContinue ==
    /\ IwShown /\ iw.step = "words"
    /\ IwFilledWords(iw) >= iw.wordCount
    /\ CanCall
    /\ Handler(calls \cup {NewCall("validate_mnemonic", "ImportWallet",
                                    [mnemonic |-> IwCandidate(iw)])},
               uw, cw, [iw EXCEPT !.error = ""], st)

\* validateWords and handleContinueToPassphrase after the backend answered
ValidateResolveOk ==
    \E c \in calls :
        /\ c.cmd = "validate_mnemonic"
        /\ Handler(calls \ {c}, uw, cw,
                   IF ~c.live THEN iw
                   ELSE IF ValidateAnswer(c.arg.mnemonic)
                        THEN [iw EXCEPT !.step = "passphrase"]
                        ELSE [iw EXCEPT !.error = "Invalid seed phrase. Please check your words."],
                   st)

ValidateResolveErr ==
    \E c \in calls :
        /\ c.cmd = "validate_mnemonic"
        /\ Handler(calls \ {c}, uw, cw,
                   IF c.live THEN [iw EXCEPT !.error = "Failed to validate seed phrase."]
                   ELSE iw,
                   st)

IwCancel ==
    /\ IwShown /\ iw.step = "words"
    /\ UNCHANGED storeVars
    /\ Commit("/", calls, uw, cw, iw, st)

IwSetUsePassphrase ==
    \E b \in BOOLEAN :
        /\ IwShown /\ iw.step = "passphrase"
        /\ Handler(calls, uw, cw, [iw EXCEPT !.usePassphrase = b], st)

IwSetPassphrase(inputs) ==
    \E v \in inputs :
        /\ IwShown /\ iw.step = "passphrase" /\ iw.usePassphrase
        /\ Handler(calls, uw, cw, [iw EXCEPT !.passphrase = v], st)

IwPassphraseContinue ==
    /\ IwShown /\ iw.step = "passphrase"
    /\ ~(iw.usePassphrase /\ Len(iw.passphrase) = 0)
    /\ Handler(calls, uw, cw, [iw EXCEPT !.step = "password"], st)

IwPassphraseBack ==
    /\ IwShown /\ iw.step = "passphrase"
    /\ Handler(calls, uw, cw, [iw EXCEPT !.step = "words"], st)

IwSetPassword(inputs) ==
    \E v \in inputs :
        /\ IwShown /\ iw.step = "password"
        /\ Handler(calls, uw, cw, [iw EXCEPT !.password = v], st)

IwSetConfirmPassword(inputs) ==
    \E v \in inputs :
        /\ IwShown /\ iw.step = "password"
        /\ Handler(calls, uw, cw, [iw EXCEPT !.confirmPassword = v], st)

\* handleImportWallet, from the Import Wallet button
IwImportWallet ==
    /\ IwShown /\ iw.step = "password"
    /\ isPasswordValid(iw.password, iw.confirmPassword) /\ ~iw.loading
    /\ CanCall
    /\ Handler(calls \cup {NewCall("import_wallet", "ImportWallet",
                   [mnemonic |-> IwCandidate(iw),
                    passphrase |-> IF iw.usePassphrase THEN <<iw.passphrase>> ELSE <<>>,
                    password |-> iw.password,
                    confirmPassword |-> iw.confirmPassword])},
               uw, cw, [iw EXCEPT !.loading = TRUE, !.error = ""], st)

IwPasswordBack ==
    /\ IwShown /\ iw.step = "password"
    /\ Handler(calls, uw, cw, [iw EXCEPT !.step = "passphrase"], st)

-----------------------------------------------------------------------------
(* Settings: the change-password modal *)

StShown == Screen = "Settings" /\ st.mounted

StFormShown == StShown /\ st.showPasswordModal /\ ~st.passwordSuccess

StOpenModal ==
    /\ StShown /\ ~st.showPasswordModal
    /\ Handler(calls, uw, cw, iw, [st EXCEPT !.showPasswordModal = TRUE])

StSetCurrentPassword(inputs) ==
    \E v \in inputs :
        /\ StFormShown
        /\ Handler(calls, uw, cw, iw, [st EXCEPT !.currentPassword = v])

StSetNewPassword(inputs) ==
    \E v \in inputs :
        /\ StFormShown
        /\ Handler(calls, uw, cw, iw, [st EXCEPT !.newPassword = v])

StSetConfirmPassword(inputs) ==
    \E v \in inputs :
        /\ StFormShown
        /\ Handler(calls, uw, cw, iw, [st EXCEPT !.confirmPassword = v])

\* handleChangePassword, from the Change Password button
StChangePassword ==
    /\ StFormShown
    /\ isPasswordValid(st.newPassword, st.confirmPassword)
    /\ Len(st.currentPassword) > 0 /\ ~st.passwordLoading
    /\ CanCall
    /\ Handler(calls \cup {NewCall("change_password", "Settings",
                   [oldPassword |-> st.currentPassword,
                    newPassword |-> st.newPassword,
                    confirmPassword |-> st.confirmPassword])},
               uw, cw, iw, [st EXCEPT !.passwordLoading = TRUE, !.passwordError = ""])

\* change_password resolved: success shown, the modal closes 2 s later
ChangeResolveOk ==
    \E c \in calls :
        /\ c.cmd = "change_password"
        /\ Handler(calls \ {c}, uw, cw, iw,
                   IF c.live THEN [st EXCEPT !.passwordSuccess = TRUE,
                                             !.closeTimer = TRUE,
                                             !.passwordLoading = FALSE]
                   ELSE st)

ChangeResolveErr ==
    \E c \in calls :
        /\ c.cmd = "change_password"
        /\ Handler(calls \ {c}, uw, cw, iw,
                   IF c.live THEN [st EXCEPT !.passwordError = "Failed to change password",
                                             !.passwordLoading = FALSE]
                   ELSE st)

\* closePasswordModal
StClosed(s) ==
    [s EXCEPT !.showPasswordModal = FALSE, !.currentPassword = EmptyStr,
              !.newPassword = EmptyStr, !.confirmPassword = EmptyStr,
              !.passwordError = "", !.passwordSuccess = FALSE]

\* Cancel (disabled while loading) or the modal's backdrop
StCloseModal ==
    /\ StShown /\ st.showPasswordModal
    /\ Handler(calls, uw, cw, iw, StClosed(st))

\* the timeout set after a successful change
StCloseTimer ==
    /\ st.mounted /\ st.closeTimer
    /\ Handler(calls, uw, cw, iw, [StClosed(st) EXCEPT !.closeTimer = FALSE])

-----------------------------------------------------------------------------
(* useWindowFocus and PrivacyOverlay *)

\* PrivacyOverlay, and the hook with it, is rendered once App is past its
\* loading view
FocusHookMounted == walletExists # "null"

\* setupListeners after the await of appWindow.onFocusChanged
FocusListenerReady ==
    /\ FocusHookMounted /\ unlisten = "null"
    /\ unlisten' = "set"
    /\ UNCHANGED <<isFocused, windowEvent, storeVars, location, calls, timerVars,
                   compVars, pwVars>>

\* the focus listener, without its setIsFocused
FocusChangedIgnored ==
    \E focused \in BOOLEAN :
        /\ FocusHookMounted /\ unlisten = "set"
        /\ windowEvent' = IF focused THEN "focus" ELSE "blur"
        /\ UNCHANGED <<isFocused, unlisten, storeVars, location, calls, timerVars,
                       compVars, pwVars>>

\* the focus listener: setIsFocused(focused)
FocusChanged ==
    \E focused \in BOOLEAN :
        /\ FocusHookMounted /\ unlisten = "set"
        /\ windowEvent' = IF focused THEN "focus" ELSE "blur"
        /\ isFocused' = focused
        /\ UNCHANGED <<unlisten, storeVars, location, calls, timerVars, compVars, pwVars>>

\* handleVisibilityChange: only the hidden document is acted on
VisibilityChange ==
    \E hidden \in BOOLEAN :
        /\ FocusHookMounted
        /\ windowEvent' = IF hidden THEN "hidden" ELSE "visible"
        /\ isFocused' = IF hidden THEN FALSE ELSE isFocused
        /\ UNCHANGED <<unlisten, storeVars, location, calls, timerVars, compVars, pwVars>>

\* PrivacyOverlay renders the obstruction
OverlayShown == FocusHookMounted /\ ~(isLocked \/ isFocused)

-----------------------------------------------------------------------------
(* SigningFlow *)

\* /^[0-9a-fA-F]+$/
IsHexChar(c) ==
    \/ IsDigitChar(c)
    \/ Code(c) >= Code("A") /\ Code(c) <= Code("A") + 5
    \/ Code(c) >= Code("a") /\ Code(c) <= Code("a") + 5

IsHexString(s) == Len(s) >= 1 /\ \A i \in 1..Len(s) : IsHexChar(s[i])

\* the auto-detection of onScan and handleParsePSBTFromData
DetectFormat(trimmed) == IF IsHexString(trimmed) THEN "hex" ELSE "base64"

\* payloads of a QR code or of the clipboard: hex digits, hex digits in upper
\* case between white space, a payload with a non-hex character, white space
PsbtPayloads == {<<"0", "a">>, <<" ", "A", "9", " ">>, <<"z", "0">>, <<" ">>}

\* what parse_psbt and sign_psbt may return
PsbtDetailsValues == {"details1"}
SignedResults == {"signed1"}

\* a handler of SigningFlow or of its QRScanner: the two components' state
\* and the calls change, and the scanner mounts or unmounts with the render
SfQrHandler(cs, sfN, qN, capN) ==
    /\ UNCHANGED <<storeVars, location, uw, cw, iw, st, wd, am, timerVars, pwVars,
                   focusVars>>
    /\ sf' = sfN
    /\ calls' = cs
    /\ QrFollow(sf, sfN, qN, capN)

\* a SigningFlow handler
SfHandler(cs, sfN) == SfQrHandler(cs, sfN, qr, capture)

SfShown == Screen = "SigningFlow" /\ sf.mounted

\* the input step, shown whatever loading is
SfInputShown == SfShown /\ sf.step = "input"

\* the Scan QR / Paste Text buttons; the QRScanner is mounted in scan mode only
SfSetInputMode ==
    \E m \in {"scan", "paste"} :
        /\ SfInputShown
        /\ SfHandler(calls, [sf EXCEPT !.inputMode = m, !.error = "",
                                      !.scanning = IF m = sf.inputMode THEN sf.scanning
                                                   ELSE FALSE])

\* the camera check effect after await QrScanner.hasCamera()
QrHasCameraResolve(answers) ==
    \E has \in answers :
        /\ qr.mounted /\ qr.probe = "hasCamera"
        /\ SfQrHandler(calls, sf,
                       IF has THEN [qr EXCEPT !.probe = "getUserMedia"]
                       ELSE [qr EXCEPT !.probe = "done", !.cameraStatus = "unavailable",
                                       !.error = "No camera detected on this device"],
                       capture)

\* the camera check effect after await getUserMedia: the test stream is
\* stopped at once, or the catch
QrGetUserMediaResolve(answers) ==
    \E ok \in answers :
        /\ qr.mounted /\ qr.probe = "getUserMedia"
        /\ SfQrHandler(calls, sf,
                       IF ok THEN [qr EXCEPT !.probe = "done", !.cameraStatus = "available"]
                       ELSE [qr EXCEPT !.probe = "done", !.cameraStatus = "unavailable",
                                       !.error = "Camera unavailable"],
                       capture)

\* startScanning returns unless the camera check found a camera
QrMayStart(q) == q.cameraStatus = "available"

\* QRScanner.startScanning up to await scannerRef.current.start(); the Start
\* Camera button is rendered once the check is over and a camera was found
SfStartCamera ==
    /\ SfInputShown /\ qr.mounted /\ qr.cameraStatus = "available" /\ ~sf.scanning
    /\ QrMayStart(qr)
    /\ qr.starts < MaxStarts
    /\ SfQrHandler(calls, [sf EXCEPT !.scanning = TRUE],
                   [qr EXCEPT !.error = "null", !.scanner = "instance",
                              !.active = TRUE, !.starts = @ + 1],
                   capture)

\* scanner.start() resolved: the stream is attached if the scanner was not
\* stopped meanwhile, else released at once; or start() rejected: the catch
\* of startScanning, whose onError is SigningFlow's setError
QrStartResolve(answers) ==
    \E ok \in answers :
        /\ qr.mounted /\ qr.starts > 0
        /\ IF ok
           THEN SfQrHandler(calls, sf, [qr EXCEPT !.starts = @ - 1],
                            capture \/ qr.active)
           ELSE SfQrHandler(calls,
                            [sf EXCEPT !.scanning = FALSE, !.error = "Failed to start camera"],
                            [qr EXCEPT !.starts = @ - 1, !.active = FALSE,
                                       !.cameraStatus = "unavailable",
                                       !.error = "Failed to start camera"],
                            capture)

\* a promise of an unmounted scanner settles: after hasCamera the check goes
\* on to getUserMedia, whose stream is stopped at once; a stopped or destroyed
\* scanner releases the stream its start() obtains; the state setters of the
\* unmounted scanner do nothing, and onError of a failed start reaches the
\* SigningFlow that rendered it while that is still mounted
QrLateSettle(answers) ==
    \E l \in qrLate, ok \in answers :
        /\ UNCHANGED <<storeVars, location, calls, uw, cw, iw, st, wd, am, qr, capture,
                       timerVars, pwVars, focusVars>>
        /\ qrLate' = (qrLate \ {l}) \cup
                         (IF l.kind = "hasCamera" /\ ok
                          THEN {[l EXCEPT !.kind = "getUserMedia"]} ELSE {})
        /\ sf' = IF l.kind = "start" /\ ~ok /\ l.parent /\ sf.mounted
                 THEN [sf EXCEPT !.error = "Failed to start camera"] ELSE sf

\* stopScanning, from the Stop Camera button
SfStopCamera ==
    /\ SfInputShown /\ qr.mounted /\ qr.cameraStatus = "available" /\ sf.scanning
    /\ SfQrHandler(calls, [sf EXCEPT !.scanning = FALSE],
                   [qr EXCEPT !.active = FALSE], FALSE)

\* QRScanner.handleScan, onScan and handleParsePSBTFromData up to the await
SfScan(payloads) ==
    \E data \in payloads :
        /\ SfInputShown /\ qr.mounted /\ capture
        /\ Len(data) > 0
        /\ CanCall
        /\ LET trimmed == Trim(data)
               format == DetectFormat(trimmed)
           IN  SfQrHandler(calls \cup {NewCall("parse_psbt", "SigningFlow",
                                               [psbtData |-> trimmed, format |-> format])},
                           [sf EXCEPT !.scanning = FALSE, !.psbtInput = trimmed,
                                      !.psbtFormat = format,
                                      !.loading = TRUE, !.error = ""],
                           [qr EXCEPT !.active = FALSE], FALSE)

\* the Base64 / Hex radio buttons of paste mode
SfSetFormat ==
    \E f \in {"base64", "hex"} :
        /\ SfInputShown /\ sf.inputMode = "paste"
        /\ SfHandler(calls, [sf EXCEPT !.psbtFormat = f])

\* the textarea of paste mode
SfSetInput(inputs) ==
    \E v \in inputs :
        /\ SfInputShown /\ sf.inputMode = "paste"
        /\ SfHandler(calls, [sf EXCEPT !.psbtInput = v])

\* handleParsePSBT up to the await, from the Parse PSBT button
SfParse ==
    /\ SfInputShown /\ sf.inputMode = "paste"
    /\ Len(Trim(sf.psbtInput)) > 0 /\ ~sf.loading
    /\ CanCall
    /\ SfHandler(calls \cup {NewCall("parse_psbt", "SigningFlow",
                                     [psbtData |-> Trim(sf.psbtInput),
                                      format |-> sf.psbtFormat])},
                 [sf EXCEPT !.loading = TRUE, !.error = ""])

\* parse_psbt resolved: details set, step review (the QRScanner unmounts)
ParseResolveOk ==
    \E c \in calls, details \in PsbtDetailsValues :
        /\ c.cmd = "parse_psbt"
        /\ SfHandler(calls \ {c},
                     IF c.live THEN [sf EXCEPT !.psbtDetails = details, !.step = "review",
                                               !.loading = FALSE, !.scanning = FALSE,
                                               !.reviewed = c.arg]
                     ELSE sf)

\* parse_psbt rejected: the catch and the finally
ParseResolveErr ==
    \E c \in calls :
        /\ c.cmd = "parse_psbt"
        /\ SfHandler(calls \ {c},
                     IF c.live THEN [sf EXCEPT !.error = "Failed to parse PSBT",
                                               !.loading = FALSE]
                     ELSE sf)

\* the review step renders nothing without details
SfReviewShown == SfShown /\ sf.step = "review" /\ sf.psbtDetails # "null"

\* handleSignPSBT up to the await, from the Sign Transaction button
SfSign ==
    /\ SfReviewShown /\ ~sf.loading
    /\ CanCall
    /\ SfHandler(calls \cup {NewCall("sign_psbt", "SigningFlow",
                                     [psbtData |-> Trim(sf.psbtInput),
                                      format |-> sf.psbtFormat])},
                 [sf EXCEPT !.loading = TRUE, !.error = ""])

\* sign_psbt resolved: result set, step export; loading is left as it is
SignResolveOk ==
    \E c \in calls, result \in SignedResults :
        /\ c.cmd = "sign_psbt"
        /\ SfHandler(calls \ {c},
                     IF c.live THEN [sf EXCEPT !.signedResult = result, !.step = "export"]
                     ELSE sf)

\* the catch, going back to the input step with handleReset
SignResolveErrResets ==
    \E c \in calls :
        /\ c.cmd = "sign_psbt"
        /\ SfHandler(calls \ {c},
                     IF c.live THEN [sf EXCEPT !.error = "Failed to sign PSBT",
                                               !.loading = FALSE,
                                               !.step = "input", !.psbtInput = EmptyStr,
                                               !.psbtDetails = "null"]
                     ELSE sf)

\* sign_psbt rejected: the catch
SignResolveErr ==
    \E c \in calls :
        /\ c.cmd = "sign_psbt"
        /\ SfHandler(calls \ {c},
                     IF c.live THEN [sf EXCEPT !.error = "Failed to sign PSBT",
                                               !.loading = FALSE]
                     ELSE sf)

\* handleReset, from Cancel on review or Sign Another Transaction on export
SfReset ==
    /\ \/ SfReviewShown
       \/ SfShown /\ sf.step = "export" /\ sf.signedResult # "null"
    /\ SfHandler(calls, [sf EXCEPT !.step = "input", !.inputMode = "scan",
                                  !.psbtInput = EmptyStr, !.psbtFormat = "base64",
                                  !.psbtDetails = "null", !.signedResult = "null",
                                  !.error = "", !.scanning = FALSE, !.reviewed = NoArg])

-----------------------------------------------------------------------------
(* WalletDashboard *)

\* what the user may type into the seed password field
SeedPasswords == {EmptyStr, <<"a">>, <<"b">>}

\* what export_mnemonic may return
SeedPhrases == {"mnemonic1"}

\* a WalletDashboard handler: only the component's state and the calls change
WdHandler(cs, wdN) ==
    /\ UNCHANGED <<storeVars, location, uw, cw, iw, st, sf, am, qr, qrLate, capture,
                   timerVars, pwVars, focusVars>>
    /\ wd' = wdN
    /\ calls' = cs

WdShown == Screen = "WalletDashboard" /\ wd.mounted

\* the Modal renders nothing unless isOpen
WdModalShown == WdShown /\ wd.showSeedModal

\* Quick Actions: Generate Address, Sign Transaction, Settings; the open
\* modal's backdrop covers them
WdNavigate ==
    \E p \in {"/addresses", "/sign", "/settings"} :
        /\ WdShown /\ ~wd.showSeedModal
        /\ UNCHANGED storeVars
        /\ Commit(p, calls, uw, cw, iw, st)

\* Quick Actions: View Seed Phrase
WdOpenSeedModal ==
    /\ WdShown /\ ~wd.showSeedModal
    /\ WdHandler(calls, [wd EXCEPT !.showSeedModal = TRUE])

\* the password field of the modal, rendered while no seed phrase is held
WdSetSeedPassword(inputs) ==
    \E v \in inputs :
        /\ WdModalShown /\ wd.seedPhrase = "null"
        /\ WdHandler(calls, [wd EXCEPT !.seedPassword = v])

\* handleExportSeed up to the await, from the Reveal Seed button
WdExportSeed ==
    /\ WdModalShown /\ wd.seedPhrase = "null"
    /\ wd.seedPassword # EmptyStr /\ ~wd.seedLoading
    /\ CanCall
    /\ WdHandler(calls \cup {NewCall("export_mnemonic", "WalletDashboard",
                                      [password |-> wd.seedPassword])},
                 [wd EXCEPT !.seedLoading = TRUE, !.seedError = ""])

\* export_mnemonic resolved: setSeedPhrase(mnemonic), and the finally
ExportResolveOk ==
    \E c \in calls, mnemonic \in SeedPhrases :
        /\ c.cmd = "export_mnemonic"
        /\ WdHandler(calls \ {c},
                     IF c.live THEN [wd EXCEPT !.seedPhrase = mnemonic,
                                               !.seedLoading = FALSE]
                     ELSE wd)

\* export_mnemonic rejected: the catch and the finally
ExportResolveErr ==
    \E c \in calls :
        /\ c.cmd = "export_mnemonic"
        /\ WdHandler(calls \ {c},
                     IF c.live THEN [wd EXCEPT !.seedError = "Invalid password",
                                               !.seedLoading = FALSE]
                     ELSE wd)

\* closeSeedModal, from Cancel, Done or a click on the backdrop
WdCloseSeedModal ==
    /\ WdModalShown
    /\ WdHandler(calls, [wd EXCEPT !.showSeedModal = FALSE, !.seedPassword = EmptyStr,
                                  !.seedPhrase = "null", !.seedError = ""])

-----------------------------------------------------------------------------
(* AddressManager *)

\* an AddressManager handler: only the component's state and the calls change
AmHandler(cs, amN) ==
    /\ UNCHANGED <<storeVars, location, uw, cw, iw, st, sf, wd, qr, qrLate, capture,
                   timerVars, pwVars, focusVars>>
    /\ am' = amN
    /\ calls' = cs

AmShown == Screen = "AddressManager" /\ am.mounted

\* the Receive and Change buttons
AmSetType ==
    \E t \in {"receive", "change"} :
        /\ AmShown
        /\ AmHandler(calls, [am EXCEPT !.addressType = t, !.address = NoArg])

\* handlePrevious; the button is disabled at index 0
AmPrevious ==
    /\ AmShown /\ am.index # 0
    /\ IF am.index > 0
       THEN AmHandler(calls, [am EXCEPT !.index = @ - 1, !.address = NoArg])
       ELSE AmHandler(calls, am)

\* handleNext
AmNext ==
    /\ AmShown /\ am.index < MaxIndex
    /\ AmHandler(calls, [am EXCEPT !.index = @ + 1, !.address = NoArg])

\* the arguments of derive_address for the selection
DeriveArg(a) ==
    [account |-> 0, change |-> IF a.addressType = "change" THEN 1 ELSE 0,
     index |-> a.index]

\* handleDeriveAddress up to the await, from the Generate Address button
AmDerive ==
    /\ AmShown /\ ~am.loading
    /\ CanCall
    /\ AmHandler(calls \cup {NewCall("derive_address", "AddressManager", DeriveArg(am))},
                 [am EXCEPT !.loading = TRUE, !.error = "null"])

\* derive_address resolved: the address derived for the call's arguments is
\* set, and the finally
DeriveResolveOk ==
    \E c \in calls :
        /\ c.cmd = "derive_address"
        /\ AmHandler(calls \ {c},
                     IF c.live THEN [am EXCEPT !.address = c.arg, !.loading = FALSE]
                     ELSE am)

\* derive_address rejected: the catch and the finally
DeriveResolveErr ==
    \E c \in calls :
        /\ c.cmd = "derive_address"
        /\ AmHandler(calls \ {c},
                     IF c.live THEN [am EXCEPT !.error = "derive failed", !.loading = FALSE]
                     ELSE am)

-----------------------------------------------------------------------------
(* walletStore.importWallet, answered *)

\* importWallet (store) resolved, then navigate('/dashboard')
ImportResolveOk ==
    \E c \in calls, info \in Infos :
        /\ c.cmd = "import_wallet"
        /\ walletInfo' = info /\ isLocked' = FALSE /\ walletExists' = "true"
        /\ Commit("/dashboard", calls \ {c}, uw, cw, iw, st)

\* the catch without its setLoading(false)
ImportResolveErrKeepsBusy ==
    \E c \in calls :
        /\ c.cmd = "import_wallet"
        /\ Handler(calls \ {c}, uw,
                   IF c.live /\ c.from = "CreateWallet"
                   THEN [cw EXCEPT !.error = "Failed to create wallet"] ELSE cw,
                   IF c.live /\ c.from = "ImportWallet"
                   THEN [iw EXCEPT !.error = "Failed to import wallet"] ELSE iw,
                   st)

\* importWallet rejected: the catch of handleCreateWallet / handleImportWallet
ImportResolveErr ==
    \E c \in calls :
        /\ c.cmd = "import_wallet"
        /\ Handler(calls \ {c}, uw,
                   IF c.live /\ c.from = "CreateWallet"
                   THEN [cw EXCEPT !.error = "Failed to create wallet", !.loading = FALSE]
                   ELSE cw,
                   IF c.live /\ c.from = "ImportWallet"
                   THEN [iw EXCEPT !.error = "Failed to import wallet", !.loading = FALSE]
                   ELSE iw,
                   st)

\* WalletSetup: the two buttons
SetupNavigate ==
    \E p \in {"/create", "/import"} :
        /\ Screen = "WalletSetup"
        /\ UNCHANGED storeVars
        /\ Commit(p, calls, uw, cw, iw, st)

\* the word counts the two buttons of the options step set
WordCounts == {12, 24}

CreateNext ==
    \/ SetupNavigate
    \/ CwSetWordCount(WordCounts)
    \/ CwToggleUsePassphrase
    \/ CwOptionsContinue
    \/ CwCancel
    \/ CwSetPassphrase(PassphraseInputs)
    \/ CwPassphraseContinue
    \/ CwPassphraseBack
    \/ CwSeedWritten
    \/ CwDisplayBack
    \/ CwSetConfirmWord(ConfirmInputs)
    \/ CwConfirm
    \/ CwConfirmBack
    \/ CwSetPassword(PasswordInputs)
    \/ CwSetConfirmPassword(PasswordInputs)
    \/ CwCreateWallet
    \/ CwPasswordBack
    \/ GenerateResolveOk
    \/ GenerateResolveErr
    \/ ImportResolveOk
    \/ ImportResolveErr

-----------------------------------------------------------------------------
(* Specification of the application *)

InitApp ==
    /\ walletInfo = "null" /\ isLocked = TRUE /\ walletExists = "null"
    /\ location = "/"
    /\ calls = {[id |-> 1, cmd |-> "wallet_exists", from |-> "App", live |-> TRUE,
                 arg |-> NoArg]}
    /\ timeoutRef = "null" /\ listening = FALSE
    /\ sinceArm = 0 /\ sinceReset = LongAgo /\ sinceEvent = AUTO_LOCK_TIMEOUT
    /\ uw = Unmounted /\ cw = Unmounted /\ iw = Unmounted /\ st = Unmounted
    /\ sf = Unmounted /\ isFocused = TRUE /\ unlisten = "null"
    /\ wd = Unmounted /\ am = Unmounted
    /\ qr = QrUnmounted /\ qrLate = {} /\ capture = FALSE
    /\ windowEvent = "none"

InitPw == pwIn = EmptyStr /\ pwOut = [computed |-> FALSE]

Init == InitApp /\ InitPw

ShellNext ==
    \/ CheckWalletResolve
    \/ RequestPath
    \/ UwSetPassword
    \/ UwUnlock
    \/ UnlockResolveOk
    \/ UnlockResolveErr
    \/ UwOpenDeleteModal
    \/ UwSetDeleteConfirmText
    \/ UwCloseDeleteModal
    \/ UwDeleteWallet
    \/ DeleteResolveOk
    \/ DeleteResolveErr
    \/ LockClick
    \/ LockResolveOk
    \/ LockResolveErr
    \/ ActivityEvent
    \/ TimerFire

\* the Create flow within the application: the default word count, no
\* passphrase, two candidate confirmation words, one password
AppConfirmInputs == {<<"a","b">>, <<"a">>}

CreateInApp ==
    \/ SetupNavigate
    \/ CwOptionsContinue
    \/ CwCancel
    \/ CwSeedWritten
    \/ CwDisplayBack
    \/ CwSetConfirmWord(AppConfirmInputs)
    \/ CwConfirm
    \/ CwSetPassword({ValidPassword})
    \/ CwSetConfirmPassword({ValidPassword})
    \/ CwCreateWallet
    \/ GenerateResolveOk
    \/ GenerateResolveErr
    \/ ImportResolveOk
    \/ ImportResolveErr

\* the Import flow within the application: one pasted phrase, no passphrase,
\* one password
AppPasteTexts == {Join(MnemonicWords(12)) \o <<" ", " ", "z">>}

ImportInApp ==
    \/ IwPaste(AppPasteTexts)
    \/ IwContinue
    \/ ValidateResolveOk
    \/ ValidateResolveErr
    \/ IwCancel
    \/ IwPassphraseContinue
    \/ IwSetPassword({ValidPassword})
    \/ IwSetConfirmPassword({ValidPassword})
    \/ IwImportWallet

Next == ShellNext \/ CreateInApp \/ ImportInApp \/ TickCoarse

Spec == Init /\ [][Next]_vars


-----------------------------------------------------------------------------
(* The Create flow on its own: the application after the existence check   *)
(* answered false and the user chose Create New Wallet                     *)

InitCreate ==
    /\ walletInfo = "null" /\ isLocked = TRUE /\ walletExists = "false"
    /\ location = "/create"
    /\ calls = {}
    /\ timeoutRef = "null" /\ listening = FALSE
    /\ sinceArm = 0 /\ sinceReset = LongAgo /\ sinceEvent = AUTO_LOCK_TIMEOUT
    /\ uw = Unmounted /\ cw = CwInit /\ iw = Unmounted /\ st = Unmounted
    /\ sf = Unmounted /\ isFocused = TRUE /\ unlisten = "null"
    /\ wd = Unmounted /\ am = Unmounted
    /\ qr = QrUnmounted /\ qrLate = {} /\ capture = FALSE
    /\ windowEvent = "none"
    /\ InitPw

SpecCreate == InitCreate /\ [][CreateNext]_vars

-----------------------------------------------------------------------------
(* Route guard properties *)

SetupPaths == {"/", "/create", "/import"}
SetupScreens == {"WalletSetup", "CreateWallet", "ImportWallet"}
ProtectedPaths == {"/dashboard", "/addresses", "/sign", "/settings"}

\* C1: while walletExists is unknown only the loading view is shown; with
\* walletExists = false the location is one of /, /create, /import, the screen
\* is one of the three setup screens (never the dashboard) and every
\* requested path resolves into that set; with walletExists = true and
\* isLocked = true the location is /unlock, the screen is the unlock screen
\* and every requested path resolves to /unlock.
RouteGuardRestrictive ==
    /\ walletExists = "null" => Screen = "Loading"
    /\ walletExists = "false" =>
          /\ location \in SetupPaths
          /\ Screen \in SetupScreens
          /\ \A p \in Paths :
                /\ ResolveLocation(p, "false", isLocked) \in SetupPaths
                /\ ScreenOf(p, "false", isLocked) \in SetupScreens
    /\ (walletExists = "true" /\ isLocked) =>
          /\ location = "/unlock"
          /\ Screen = "UnlockWallet"
          /\ \A p \in Paths :
                /\ ResolveLocation(p, "true", TRUE) = "/unlock"
                /\ ScreenOf(p, "true", TRUE) = "UnlockWallet"

\* C1 is exercised: a wallet that was unlocked is locked again, and the guard
\* has taken the location to the unlock screen
RouteGuardRelocked ==
    /\ walletExists = "true" /\ isLocked /\ walletInfo # "null"
    /\ location = "/unlock" /\ uw.mounted

\* C2: with walletExists = true and isLocked = false the location is one of
\* /dashboard, /addresses, /sign, /settings and the screen shown is one of the
\* four protected screens; any other path has been redirected to /dashboard.
RouteGuardUnlocked ==
    (walletExists = "true" /\ ~isLocked) =>
        /\ location \in ProtectedPaths
        /\ Screen \in LayoutScreens

-----------------------------------------------------------------------------
(* Password policy: getPasswordValidationState on its own *)

\* longest head drawn character by character
MaxHead == 3

HeadChars == {"A", "a", "9", "!"}
Heads == UNION {[1..n -> HeadChars] : n \in 0..MaxHead}

\* heads are padded with one repeated character up to the length threshold
PadChars == {"a", "!"}
PadLengths == {0, PASSWORD_MIN_LENGTH - 3, PASSWORD_MIN_LENGTH - 2}

PwInputs == {h \o Rep(c, n) : h \in Heads, c \in PadChars, n \in PadLengths}

InitPwStudy ==
    /\ InitApp
    /\ pwIn \in PwInputs
    /\ pwOut = [computed |-> FALSE]

\* a form calls getPasswordValidationState(password)
PwValidate ==
    /\ ~pwOut.computed
    /\ pwOut' = [computed |-> TRUE, state |-> getPasswordValidationState(pwIn)]
    /\ UNCHANGED <<pwIn, storeVars, location, calls, timerVars, compVars, focusVars>>

SpecPw == InitPwStudy /\ [][PwValidate]_vars

UpperLetters == {"A", "B", "D", "E", "L", "T", "Z"}
LowerLetters == {"a", "b", "d", "e", "l", "t", "z"}
Digits == {"0", "9"}

HasCharIn(p, set) == \E i \in 1..Len(p) : p[i] \in set

\* the three character classes a password shows, and whether it is long enough
PolicyProfile(p) ==
    <<Len(p) >= 12, HasCharIn(p, UpperLetters), HasCharIn(p, LowerLetters),
      HasCharIn(p, Digits)>>

\* C6: isValid is true exactly when the password has at least 12 characters,
\* an upper-case letter, a lower-case letter and a digit; two passwords that
\* agree on these four facts get the same isValid, whether or not either
\* holds a special character.
PasswordPolicyIff ==
    pwOut.computed =>
        /\ pwOut.state.isValid <=> PolicyProfile(pwIn) = <<TRUE, TRUE, TRUE, TRUE>>
        /\ \A q \in PwInputs :
               PolicyProfile(q) = PolicyProfile(pwIn) =>
                   getPasswordValidationState(q).isValid = pwOut.state.isValid

\* C6 is exercised: a password without a special character is found valid
PasswordValidWithoutSpecial ==
    /\ pwOut.computed
    /\ pwOut.state.isValid /\ ~pwOut.state.hasSpecial

-----------------------------------------------------------------------------
(* Idle timer *)

\* an unlocked session on the dashboard, as UnlockResolveOk leaves it
InitIdle ==
    /\ walletInfo = "info1" /\ isLocked = FALSE /\ walletExists = "true"
    /\ location = "/dashboard"
    /\ calls = {}
    /\ timeoutRef = "pending" /\ listening = TRUE
    /\ sinceArm = 0 /\ sinceReset = LongAgo /\ sinceEvent = AUTO_LOCK_TIMEOUT
    /\ uw = Unmounted /\ cw = Unmounted /\ iw = Unmounted /\ st = Unmounted
    /\ sf = Unmounted /\ isFocused = TRUE /\ unlisten = "null"
    /\ wd = WdInit /\ am = Unmounted
    /\ qr = QrUnmounted /\ qrLate = {} /\ capture = FALSE
    /\ windowEvent = "none"
    /\ InitPw

IdleNext ==
    \/ ActivityEvent
    \/ TimerFire
    \/ TickFine
    \/ LockClick
    \/ LockResolveOk
    \/ LockResolveErr
    \/ UwSetPassword
    \/ UwUnlock
    \/ UnlockResolveOk
    \/ UnlockResolveErr

SpecIdle == InitIdle /\ [][IdleNext]_vars

\* the lock request of an expired idle timer is in flight
AutoLockInFlight ==
    \E c \in calls : c.cmd = "lock_wallet" /\ c.from = "useAutoLock"

\* C3: once the idle timer of an unlocked session has expired, the lock is
\* requested and the session becomes locked: there is no state in which the
\* timer has expired, the session is still unlocked and no lock request of
\* the timer is in flight.
IdleExpiryLocks ==
    (timeoutRef = "fired" /\ ~isLocked) => AutoLockInFlight

\* the step in which the pending idle timer runs its callback
TimerExpires == timeoutRef = "pending" /\ timeoutRef' = "fired"

\* C4 as stated: the idle timer never expires when less than 5 minutes have
\* passed since the most recent qualifying activity event.
NoExpiryWithinTimeout ==
    [][TimerExpires => sinceEvent >= AUTO_LOCK_TIMEOUT]_vars

\* C4 as amended: an event handled more than one throttle window after the
\* last reset re-arms the countdown in full, an event inside the window leaves
\* it alone, and the idle timer never expires when less than 5 minutes minus
\* the throttle window have passed since the most recent qualifying event.
NoExpiryWithinThrottledTimeout ==
    [][/\ TimerExpires => sinceEvent >= AUTO_LOCK_TIMEOUT - THROTTLE_MS
       /\ (sinceEvent' = 0 /\ sinceReset > THROTTLE_MS) =>
              (timeoutRef' = "pending" /\ sinceArm' = 0 /\ sinceReset' = 0)
       /\ (sinceEvent' = 0 /\ sinceReset <= THROTTLE_MS) =>
              UNCHANGED <<timeoutRef, sinceArm, sinceReset>>]_vars

\* C4 is exercised: the countdown is about to expire although an event was
\* seen one throttle window short of 5 minutes ago
ExpiryAfterThrottledEvent ==
    /\ ~isLocked /\ timeoutRef = "pending" /\ TimerDue
    /\ sinceEvent = AUTO_LOCK_TIMEOUT - THROTTLE_MS

\* C5: while the session is locked no idle countdown is pending and no
\* activity listener is attached, so a countdown is pending only in a session
\* that unlock, create or import has set to unlocked.
LockedHasNoTimer ==
    isLocked => (timeoutRef = "null" /\ ~listening)

\* C5 is exercised: a session that was unlocked, with its countdown armed,
\* is locked again and the countdown is gone
RelockedWithoutTimer ==
    /\ isLocked /\ walletExists = "true" /\ walletInfo # "null"
    /\ timeoutRef = "null" /\ ~listening

-----------------------------------------------------------------------------
(* Create flow: seed confirmation *)

FoldedEqual(entered, target) == ToLowerCase(entered) = ToLowerCase(target)
TrimmedFoldedEqual(entered, target) == ToLowerCase(Trim(entered)) = ToLowerCase(target)

AllFoldedEqual(c) ==
    /\ Len(c.confirmWords) = 3
    /\ \A i \in 1..3 : FoldedEqual(c.userConfirmWords[i], c.confirmWords[i].word)

AllTrimmedFoldedEqual(c) ==
    /\ Len(c.confirmWords) = 3
    /\ \A i \in 1..3 : TrimmedFoldedEqual(c.userConfirmWords[i], c.confirmWords[i].word)

\* a step inside one Create session that enters the password step
EntersPasswordStep ==
    cw.mounted /\ cw'.mounted /\ cw.step # "password" /\ cw'.step = "password"

\* what a failed Confirm leaves behind
StaysWithMismatch ==
    cw'.step = "confirm-seed" /\ cw'.error = MismatchError

\* C9 as stated: Confirm moves to the password step exactly when each of the
\* three entered words, case-folded, equals its target word, case-folded, and
\* otherwise stays on confirm-seed with the one mismatch error; the password
\* step is entered only by such a Confirm.
ConfirmIffFolded ==
    [][/\ CwConfirm => IF AllFoldedEqual(cw) THEN cw'.step = "password"
                                              ELSE StaysWithMismatch
       /\ EntersPasswordStep => (cw.step = "confirm-seed" /\ AllFoldedEqual(cw))]_vars

\* C9 as amended: Confirm moves to the password step exactly when each of the
\* three entered words, trimmed of surrounding white space and case-folded,
\* equals its target word, case-folded; otherwise the step stays confirm-seed
\* and the one mismatch error is set; the password step is entered only by
\* such a Confirm on three targets.
ConfirmIffTrimmedFolded ==
    [][/\ CwConfirm => IF AllTrimmedFoldedEqual(cw) THEN cw'.step = "password"
                                                     ELSE StaysWithMismatch
       /\ EntersPasswordStep =>
              (cw.step = "confirm-seed" /\ AllTrimmedFoldedEqual(cw))]_vars

\* C9 is exercised: the password step was reached with an entered word that
\* differs from its target by case or surrounding white space
ConfirmedWithUntidyWord ==
    /\ cw.mounted /\ cw.step = "password"
    /\ \E i \in 1..3 : cw.userConfirmWords[i] # cw.confirmWords[i].word

-----------------------------------------------------------------------------
(* Create flow: confirmation-word sampling *)

\* three targets at ascending, distinct positions of the seed, each with the
\* seed word at its position
TargetsWellFormed(c) ==
    /\ Len(c.confirmWords) = 3
    /\ \A i \in 1..3 :
          /\ c.confirmWords[i].position \in 0..(Len(c.seedWords) - 1)
          /\ c.confirmWords[i].word = c.seedWords[c.confirmWords[i].position + 1]
    /\ c.confirmWords[1].position < c.confirmWords[2].position
    /\ c.confirmWords[2].position < c.confirmWords[3].position

\* C10: with a seed of at least 12 words, once confirm-seed has been entered
\* there are exactly 3 targets at distinct ascending positions within the
\* seed, each paired with the seed word at its position, and once chosen the
\* targets stay the same for the rest of the Create session.
SamplingSortedAndStable ==
    [][(cw'.mounted /\ Len(cw'.seedWords) >= 12) =>
          /\ (cw'.step \in {"confirm-seed", "password"} \/ Len(cw'.confirmWords) # 0)
                 => TargetsWellFormed(cw')
          /\ (cw.mounted /\ Len(cw.confirmWords) # 0)
                 => cw'.confirmWords = cw.confirmWords]_vars

\* C10 is exercised: after sampling, Back has led to the seed display again
\* and the targets are still there
TargetsKeptAfterBack ==
    /\ cw.mounted /\ cw.step = "display-seed"
    /\ Len(cw.seedWords) >= 12 /\ Len(cw.confirmWords) = 3

-----------------------------------------------------------------------------
(* Import flow on its own *)

InitImport ==
    /\ walletInfo = "null" /\ isLocked = TRUE /\ walletExists = "false"
    /\ location = "/import"
    /\ calls = {}
    /\ timeoutRef = "null" /\ listening = FALSE
    /\ sinceArm = 0 /\ sinceReset = LongAgo /\ sinceEvent = AUTO_LOCK_TIMEOUT
    /\ uw = Unmounted /\ cw = Unmounted /\ iw = IwInit /\ st = Unmounted
    /\ sf = Unmounted /\ isFocused = TRUE /\ unlisten = "null"
    /\ wd = Unmounted /\ am = Unmounted
    /\ qr = QrUnmounted /\ qrLate = {} /\ capture = FALSE
    /\ windowEvent = "none"
    /\ InitPw

ImportNext ==
    \/ SetupNavigate
    \/ IwSetWordCount(WordCounts)
    \/ IwWordChange(EditSlots, WordInputs)
    \/ IwPaste(PasteTexts)
    \/ IwContinue
    \/ ValidateResolveOk
    \/ ValidateResolveErr
    \/ IwCancel
    \/ IwSetUsePassphrase
    \/ IwSetPassphrase({<<"z">>})
    \/ IwPassphraseContinue
    \/ IwPassphraseBack
    \/ IwSetPassword({ValidPassword})
    \/ IwSetConfirmPassword({ValidPassword})
    \/ IwImportWallet
    \/ IwPasswordBack
    \/ ImportResolveOk
    \/ ImportResolveErr

SpecImport == InitImport /\ [][ImportNext]_vars

\* C8: whenever the Import flow is on the passphrase or password step, and
\* whenever import_wallet is invoked by it, the candidate mnemonic (the first
\* wordCount word fields joined by single spaces) is one the validator
\* accepts.
ImportOnlyValidated ==
    /\ (iw.mounted /\ iw.step \in {"passphrase", "password"})
          => ValidateAnswer(IwCandidate(iw))
    /\ \A c \in calls :
          (c.cmd = "import_wallet" /\ c.from = "ImportWallet")
              => ValidateAnswer(c.arg.mnemonic)

-----------------------------------------------------------------------------
(* The three password forms: Create, Import, Settings *)

\* the application with every password form fed valid and invalid passwords,
\* the idle timer left out
FormsNext ==
    \/ CheckWalletResolve
    \/ SetupNavigate
    \/ RequestPath
    \/ UwSetPassword
    \/ UwUnlock
    \/ UnlockResolveOk
    \/ UnlockResolveErr
    \/ LockClick
    \/ LockResolveOk
    \/ LockResolveErr
    \/ CwOptionsContinue
    \/ CwSeedWritten
    \/ CwSetConfirmWord(AppConfirmInputs)
    \/ CwConfirm
    \/ CwSetPassword(PasswordInputs)
    \/ CwSetConfirmPassword(PasswordInputs)
    \/ CwCreateWallet
    \/ CwPasswordBack
    \/ GenerateResolveOk
    \/ IwPaste(AppPasteTexts)
    \/ IwContinue
    \/ ValidateResolveOk
    \/ IwPassphraseContinue
    \/ IwSetPassword(PasswordInputs)
    \/ IwSetConfirmPassword(PasswordInputs)
    \/ IwImportWallet
    \/ IwPasswordBack
    \/ ImportResolveOk
    \/ ImportResolveErr
    \/ StOpenModal
    \/ StSetCurrentPassword({ShortPassword})
    \/ StSetNewPassword(PasswordInputs)
    \/ StSetConfirmPassword(PasswordInputs)
    \/ StChangePassword
    \/ ChangeResolveOk
    \/ ChangeResolveErr
    \/ StCloseModal
    \/ StCloseTimer

SpecForms == Init /\ [][FormsNext]_vars

\* the invocations that carry a new wallet password; each records, beside the
\* arguments sent, the confirmation field as it stood at the click
PasswordCalls == {c \in calls : c.cmd \in {"import_wallet", "change_password"}}

SentPassword(c) ==
    IF c.cmd = "change_password" THEN c.arg.newPassword ELSE c.arg.password

\* C7: every import_wallet invocation (from the Create flow or the Import
\* flow) and every change_password invocation carries a password that has at
\* least 12 characters, an upper-case letter, a lower-case letter and a
\* digit, and that equals the confirmation string exactly.
OnlyValidConfirmedPasswordsSent ==
    \A c \in PasswordCalls :
        /\ PolicyProfile(SentPassword(c)) = <<TRUE, TRUE, TRUE, TRUE>>
        /\ SentPassword(c) = c.arg.confirmPassword

\* C7 is exercised: a password was sent while the form it came from now
\* shows a password that fails the policy
SentWhileFormNowInvalid ==
    \E c \in PasswordCalls :
        /\ c.live
        /\ \/ c.from = "CreateWallet" /\ cw.mounted /\ cw.password = ShortPassword
           \/ c.from = "ImportWallet" /\ iw.mounted /\ iw.password = ShortPassword
           \/ c.from = "Settings" /\ st.mounted /\ st.newPassword = ShortPassword

-----------------------------------------------------------------------------
(* Create flow: seed generation *)

\* a step that invokes generate_mnemonic_cmd
GenerateIssued ==
    \E c \in calls' :
        c.cmd = "generate_mnemonic_cmd" /\ ~\E d \in calls : d.id = c.id

\* a step inside one Create session that enters display-seed
EntersDisplaySeed ==
    cw.step # "display-seed" /\ cw'.step = "display-seed"

\* C11 as stated: in one Create session the generate command is invoked
\* exactly once, on the first entry to display-seed; re-entering display-seed
\* never invokes it again and never changes the seed words already shown.
SeedGeneratedOnce ==
    [][(cw.mounted /\ cw'.mounted) =>
          /\ GenerateIssued <=> (EntersDisplaySeed /\ cw.generated = "never")
          /\ cw'.generated # "again"
          /\ Len(cw.seedWords) > 0 => cw'.seedWords = cw.seedWords]_vars

\* C11 as amended: in one Create session the generate command is invoked on
\* an entry to display-seed exactly when no seed words have been received yet
\* (the first entry, or an entry after a generation that failed); once seed
\* words are shown, re-entering display-seed never invokes it again and never
\* changes them.
SeedGeneratedUntilReceived ==
    [][(cw.mounted /\ cw'.mounted) =>
          /\ GenerateIssued <=> (EntersDisplaySeed /\ Len(cw.seedWords) = 0)
          /\ (cw.generated = "never" /\ EntersDisplaySeed) => GenerateIssued
          /\ Len(cw.seedWords) > 0 => cw'.seedWords = cw.seedWords]_vars

\* C11 is exercised: display-seed has been entered again from confirm-seed,
\* the seed is shown, and the one generate call of the session is long answered
SeedRevisitedWithoutCall ==
    /\ cw.mounted /\ cw.step = "display-seed" /\ ~cw.loading
    /\ Len(cw.seedWords) > 0 /\ Len(cw.confirmWords) = 3
    /\ cw.generated = "once" /\ calls = {}

-----------------------------------------------------------------------------
(* Create / Import: the outcome of the submission *)

\* the step in which the import_wallet call c is answered
ImportAnswered(c) ==
    c.cmd = "import_wallet" /\ ~\E d \in calls' : d.id = c.id

\* the form f2 is the form f with an error set and the busy flag cleared:
\* same step, same seed words, passphrase, password and confirmation
FailureShown(f, f2) ==
    /\ f2.error # "" /\ ~f2.loading
    /\ [f2 EXCEPT !.error = f.error, !.loading = f.loading] = f

-----------------------------------------------------------------------------
(* The signing flow in an unlocked session *)

\* an unlocked session on /sign, as a click on the Sign tab leaves it
InitSign ==
    /\ walletInfo = "info1" /\ isLocked = FALSE /\ walletExists = "true"
    /\ location = "/sign"
    /\ calls = {}
    /\ timeoutRef = "pending" /\ listening = TRUE
    /\ sinceArm = 0 /\ sinceReset = LongAgo /\ sinceEvent = AUTO_LOCK_TIMEOUT
    /\ uw = Unmounted /\ cw = Unmounted /\ iw = Unmounted /\ st = Unmounted
    /\ sf = SfInit /\ isFocused = TRUE /\ unlisten = "null"
    /\ wd = Unmounted /\ am = Unmounted
    /\ qr = [QrInit EXCEPT !.probe = "done", !.cameraStatus = "available"]
    /\ qrLate = {} /\ capture = FALSE
    /\ windowEvent = "none"
    /\ InitPw

\* what a camera probe or a scanner start may answer
CameraAnswers == {TRUE, FALSE}

SignNext ==
    \/ QrStartResolve({TRUE})
    \/ QrLateSettle({TRUE})
    \/ SfSetInputMode
    \/ SfStartCamera
    \/ SfStopCamera
    \/ SfScan(PsbtPayloads)
    \/ SfSetFormat
    \/ SfSetInput(PsbtPayloads \cup {EmptyStr})
    \/ SfParse
    \/ ParseResolveOk
    \/ ParseResolveErr
    \/ SfSign
    \/ SignResolveOk
    \/ SignResolveErr
    \/ SfReset

SpecSign == InitSign /\ [][SignNext]_vars

\* the signing flow fed one scanned payload, with the tabs, manual lock, the
\* idle timer and unlock
SignLockNext ==
    \/ QrStartResolve({TRUE})
    \/ QrLateSettle({TRUE})
    \/ SfStartCamera
    \/ SfScan({<<"0", "a">>})
    \/ ParseResolveOk
    \/ ParseResolveErr
    \/ SfSign
    \/ SignResolveOk
    \/ SignResolveErr
    \/ SfReset
    \/ RequestPath
    \/ LockClick
    \/ LockResolveOk
    \/ LockResolveErr
    \/ TickCoarse
    \/ TimerFire
    \/ UwSetPassword
    \/ UwUnlock
    \/ UnlockResolveOk
    \/ UnlockResolveErr

SpecSignLock == InitSign /\ [][SignLockNext]_vars

-----------------------------------------------------------------------------
(* Signing flow: the format sent with parse_psbt *)

\* the hex digits of the alphabet
HexDigits == {"0", "9", "a", "b", "d", "e", "A", "B", "D", "E"}

\* hex for a payload made of hex digits only, base64 otherwise
ClassifiedFormat(payload) ==
    IF Len(payload) > 0 /\ \A i \in 1..Len(payload) : payload[i] \in HexDigits
    THEN "hex" ELSE "base64"

\* C13: whether the payload was scanned or pasted, the format sent with the
\* parse_psbt request is hex if the trimmed payload consists entirely of hex
\* digits and base64 otherwise.
ParseFormatAutoDetected ==
    \A c \in calls :
        c.cmd = "parse_psbt" => c.arg.format = ClassifiedFormat(c.arg.psbtData)

-----------------------------------------------------------------------------
(* Signing flow: failure recovery *)

\* the step in which the call c of the signing flow is answered
SigningAnswered(c, cmd) ==
    c.cmd = cmd /\ c.from = "SigningFlow" /\ ~\E d \in calls' : d.id = c.id

-----------------------------------------------------------------------------
(* Backend calls in flight, per flow *)

\* the components that issue backend calls from their own controls
Flows == {"CreateWallet", "ImportWallet", "UnlockWallet", "SigningFlow", "Settings"}

\* the pending calls issued by the mounted instance of a flow
PendingOf(flow) == {c \in calls : c.from = flow /\ c.live}

\* C15: for each flow, in every reachable state at most one backend call
\* issued by that flow is pending.
OneCallPerFlow ==
    \A flow \in Flows : Cardinality(PendingOf(flow)) <= 1

-----------------------------------------------------------------------------
(* Lock during a signing flow *)

\* a call of the signing flow whose flow is gone is answered in this step
LateSigningAnswer ==
    \E c \in calls :
        /\ c.from = "SigningFlow" /\ ~c.live
        /\ ~\E d \in calls' : d.id = c.id

\* C16: when the session becomes locked while a signing flow is in progress,
\* possibly with a parse or sign call pending, the flow's state is discarded
\* and its pending calls are left without a flow; the late completion or
\* failure of such a call changes neither the session store (isLocked stays
\* true) nor the location nor the state of any flow; and a signing flow that
\* is mounted later, as after the next unlock, starts from its initial state
\* (step input, empty input, no details, no result).
LockAbandonsSigning ==
    [][/\ (walletExists' = "true" /\ isLocked') =>
             /\ sf' = Unmounted
             /\ \A c \in calls' : c.from = "SigningFlow" => ~c.live
       /\ LateSigningAnswer => UNCHANGED <<storeVars, location, compVars>>
       /\ (~sf.mounted /\ sf'.mounted) =>
             /\ sf' = SfInit
             /\ \A c \in calls' : c.from = "SigningFlow" => ~c.live]_vars

\* C16 is exercised: the session is locked, the signing flow is gone and a
\* sign call it issued is still pending
LockedWithSigningCallPending ==
    /\ walletExists = "true" /\ isLocked /\ ~sf.mounted
    /\ \E c \in calls : c.cmd = "sign_psbt" /\ ~c.live

-----------------------------------------------------------------------------
(* The privacy overlay over a session: from the first start through the     *)
(* Create flow to an unlocked wallet, with lock, unlock and the idle timer  *)

FocusNext ==
    \/ FocusListenerReady
    \/ FocusChanged
    \/ VisibilityChange
    \/ CheckWalletResolve
    \/ SetupNavigate
    \/ CwOptionsContinue
    \/ GenerateResolveOk
    \/ CwSeedWritten
    \/ CwSetConfirmWord(AppConfirmInputs)
    \/ CwConfirm
    \/ CwSetPassword({ValidPassword})
    \/ CwSetConfirmPassword({ValidPassword})
    \/ CwCreateWallet
    \/ ImportResolveOk
    \/ LockClick
    \/ LockResolveOk
    \/ UwSetPassword
    \/ UwUnlock
    \/ UnlockResolveOk
    \/ ActivityEvent
    \/ TickCoarse
    \/ TimerFire

SpecFocus == Init /\ [][FocusNext]_vars

\* the hook handles the window event e in this step
WindowEventStep(e) == windowEvent' = e /\ windowEvent # e

\* C17 as stated: while the session is unlocked, after the window loses focus
\* (a focus-changed event with focused = false, or the document becoming
\* hidden) the overlay is shown, and after the window regains focus or
\* visibility the overlay is removed; focus transitions never change
\* isLocked, walletExists or walletInfo and never reset or cancel the idle
\* countdown.
OverlayFollowsFocusAndVisibility ==
    [][/\ ((WindowEventStep("blur") \/ WindowEventStep("hidden")) /\ ~isLocked')
             => OverlayShown'
       /\ (WindowEventStep("focus") \/ WindowEventStep("visible")) => ~OverlayShown'
       /\ windowEvent' # windowEvent => UNCHANGED <<storeVars, timerVars>>]_vars

\* C17 as amended: while the session is unlocked, after a focus-changed event
\* with focused = false or the document becoming hidden the overlay is shown;
\* after a focus-changed event with focused = true the overlay is removed;
\* the document becoming visible again leaves the overlay as it is; focus
\* transitions never change isLocked, walletExists or walletInfo and never
\* reset or cancel the idle countdown.
OverlayFollowsFocus ==
    [][/\ ((WindowEventStep("blur") \/ WindowEventStep("hidden")) /\ ~isLocked')
             => OverlayShown'
       /\ WindowEventStep("focus") => ~OverlayShown'
       /\ WindowEventStep("visible") => (OverlayShown' <=> OverlayShown)
       /\ windowEvent' # windowEvent => UNCHANGED <<storeVars, timerVars>>]_vars

\* C17 is exercised: in an unlocked session whose idle countdown is running
\* the document became hidden and then visible again, and the overlay is
\* still shown
OverlayKeptAfterVisible ==
    /\ windowEvent = "visible" /\ OverlayShown
    /\ ~isLocked /\ timeoutRef = "pending"

-----------------------------------------------------------------------------
(* Seed words on screen *)

\* the display-seed step of the Create flow lists the seed words
SeedWordsDisplayed ==
    /\ Screen = "CreateWallet" /\ cw.mounted /\ ~cw.hung
    /\ cw.step = "display-seed" /\ ~cw.loading /\ Len(cw.seedWords) > 0

\* C18: whenever seed words are displayed and the window is unfocused, the
\* overlay covers them; equivalently, no seed words are displayed while
\* isLocked = true, the one case in which an unfocused window shows no overlay.
SeedCoveredWhenUnfocused ==
    (SeedWordsDisplayed /\ ~isFocused) => OverlayShown

-----------------------------------------------------------------------------
(* Import flow: bulk paste on the words step *)

PasteNext ==
    \/ IwPaste(PasteStudyTexts)
    \/ IwSetWordCount(WordCounts)
    \/ IwWordChange(EditSlots, WordInputs)
    \/ IwContinue
    \/ ValidateResolveOk
    \/ ValidateResolveErr
    \/ IwPassphraseBack

SpecPaste == InitImport /\ [][PasteNext]_vars

\* the white-space-separated tokens of a text
TokenTable == [t \in PasteStudyTexts |-> SplitWs(Trim(t))]

\* the paste of a text with n tokens has set the word count and filled the
\* slots with the given words, or left everything alone for n < 12
PasteResult(n, filled) ==
    IF n < 12 THEN iw' = iw
    ELSE LET count == IF n >= 24 THEN 24 ELSE 12
         IN  /\ iw'.wordCount = count
             /\ Len(iw'.words) >= count
             /\ \A i \in 1..count : iw'.words[i] = filled[i]
             /\ \A i \in (count + 1)..Len(iw'.words) : iw'.words[i] = EmptyStr
             /\ [iw' EXCEPT !.wordCount = iw.wordCount, !.words = iw.words] = iw

\* C19 as stated: pasting text with exactly 12 white-space-separated tokens
\* sets the word count to 12 and fills exactly those 12 slots; 13 to 23
\* tokens set the word count to 12 and fill the slots with the first 12
\* tokens; 24 or more tokens set the word count to 24 and fill the slots with
\* the first 24 tokens; fewer than 12 tokens leave the word count and all
\* slots unchanged.
PasteFillsTokens ==
    [][\A t \in PasteStudyTexts :
          IwPaste({t}) => PasteResult(Len(TokenTable[t]), TokenTable[t])]_vars

\* C19 as amended: the same, with the slots filled by the tokens converted to
\* lower case.
PasteFillsLowerCasedTokens ==
    [][\A t \in PasteStudyTexts :
          IwPaste({t}) =>
              PasteResult(Len(TokenTable[t]),
                          [i \in 1..Len(TokenTable[t]) |-> ToLowerCase(TokenTable[t][i])])]_vars

\* C19 is exercised: 24 slots hold the lower-case words that only a paste in
\* upper case can have put there
PastedInUpperCase ==
    /\ iw.mounted /\ iw.step = "words" /\ iw.wordCount = 24
    /\ iw.words = MnemonicWords(24)

-----------------------------------------------------------------------------
(* Create flow: the passphrase step *)

\* C20: in every reachable state of the Create flow, step = passphrase
\* implies usePassphrase = true; when the user has not opted in, Continue on
\* options moves directly to display-seed without visiting passphrase.
PassphraseStepOnlyOptedIn ==
    [][/\ (cw'.mounted /\ cw'.step = "passphrase") => cw'.usePassphrase
       /\ (cw.mounted /\ cw'.mounted /\ cw.step = "options" /\ cw'.step # "options"
              /\ ~cw.usePassphrase) => cw'.step = "display-seed"
       /\ (cw.mounted /\ cw'.mounted /\ cw.step # "passphrase"
              /\ cw'.step = "passphrase") => (cw.step = "options" /\ cw.usePassphrase)]_vars

\* C20 is exercised: the passphrase step is shown again, after the seed was
\* displayed, to a user who opted in and entered a passphrase
PassphraseStepOptedIn ==
    /\ cw.mounted /\ cw.step = "passphrase" /\ cw.usePassphrase
    /\ cw.passphrase = <<"z">> /\ Len(cw.seedWords) > 0

-----------------------------------------------------------------------------
(* Password strength: getPasswordStrength on its own *)

\* the example password of the strength rule
AllLowercase1 == <<"a","l","l","l","o","w","e","r","c","a","s","e","1">>

\* paddings that bring a head below 8, to 8..11, to 12..15 and to 16 or more
StrengthPadLengths == {0, 5, 9, 13, 14}

StrengthInputs ==
    {h \o Rep(c, n) : h \in Heads, c \in PadChars, n \in StrengthPadLengths}
      \cup {AllLowercase1}

InitStrength ==
    /\ InitApp
    /\ pwIn \in StrengthInputs
    /\ pwOut = [computed |-> FALSE]

\* PasswordInput calls getPasswordStrength(value)
PwStrength ==
    /\ ~pwOut.computed
    /\ pwOut' = [computed |-> TRUE, strength |-> getPasswordStrength(pwIn)]
    /\ UNCHANGED <<pwIn, storeVars, location, calls, timerVars, compVars, focusVars>>

SpecStrength == InitStrength /\ [][PwStrength]_vars

\* the rules among the five that a password satisfies
SatisfiedRules(p) ==
    {r \in {"minLength", "hasUppercase", "hasLowercase", "hasNumber", "hasSpecial"} :
        getPasswordValidationState(p)[r]}

\* the score and label the strength rule gives a password
RuleStrength(p) ==
    IF Len(p) = 0 THEN <<0, "">>
    ELSE IF Len(p) \in 1..7 THEN <<1, "Too short">>
    ELSE LET n == Cardinality(SatisfiedRules(p)) + (IF Len(p) >= 16 THEN 1 ELSE 0)
         IN  <<n, CASE n < 3 -> "Weak" [] n = 3 -> "Fair" [] n = 4 -> "Good"
                    [] n >= 5 -> "Strong">>

ExampleScoresTwoWeak ==
    (pwOut.computed /\ pwIn = AllLowercase1) =>
        (pwOut.strength.score = 2 /\ pwOut.strength.label = "Weak")

\* C23: "alllowercase1" (13 characters, lower-case letters and a digit, long
\* enough, no upper-case letter, no special character) gets score 3 and
\* label "Fair": one point each for length, lower case and digit.
ExampleScoresThreeFair ==
    (pwOut.computed /\ pwIn = AllLowercase1) =>
        /\ SatisfiedRules(pwIn) = {"minLength", "hasLowercase", "hasNumber"}
        /\ pwOut.strength.score = 3 /\ pwOut.strength.label = "Fair"

\* C23 is exercised: the strength of the example password was computed
ExampleScored ==
    pwOut.computed /\ pwIn = AllLowercase1 /\ Len(pwIn) = 13

-----------------------------------------------------------------------------
(* Signing flow: the busy flag *)

\* the parse_psbt and sign_psbt calls of the mounted flow that are pending
SigningPending ==
    {c \in calls : c.from = "SigningFlow" /\ c.live
                     /\ c.cmd \in {"parse_psbt", "sign_psbt"}}

\* C24: in every reachable state of the signing flow, loading is true only
\* while a parse_psbt or sign_psbt call of that flow is pending; after a
\* successful sign followed by reset the flow is in its initial state, so the
\* Parse PSBT control is enabled for non-empty pasted input.
BusyOnlyWhilePending ==
    /\ (sf.mounted /\ sf.loading) => SigningPending # {}
    /\ (sf.mounted /\ sf.step = "input" /\ sf.signedResult = "null"
          /\ sf.psbtDetails = "null" /\ SigningPending = {}) => ~sf.loading

-----------------------------------------------------------------------------
(* Signing flow: the PSBT reviewed and the PSBT signed *)

\* a sign_psbt call issued in this step
SignIssued(c) == c.cmd = "sign_psbt" /\ c \in calls' /\ c \notin calls

\* C25: whenever sign_psbt is invoked, the data and format it sends are those
\* of the parse_psbt call whose result is displayed on the review step.
SignsWhatWasReviewed ==
    [][\A c \in calls' : SignIssued(c) => c.arg = sf.reviewed]_vars

-----------------------------------------------------------------------------
(* QRScanner: the camera *)

\* an unlocked session on /sign whose scanner has just mounted
InitScanner ==
    /\ walletInfo = "info1" /\ isLocked = FALSE /\ walletExists = "true"
    /\ location = "/sign"
    /\ calls = {}
    /\ timeoutRef = "pending" /\ listening = TRUE
    /\ sinceArm = 0 /\ sinceReset = LongAgo /\ sinceEvent = AUTO_LOCK_TIMEOUT
    /\ uw = Unmounted /\ cw = Unmounted /\ iw = Unmounted /\ st = Unmounted
    /\ sf = SfInit /\ isFocused = TRUE /\ unlisten = "null"
    /\ wd = Unmounted /\ am = Unmounted
    /\ qr = QrInit /\ qrLate = {} /\ capture = FALSE
    /\ windowEvent = "none"
    /\ InitPw

\* the scanner with every answer of the camera, under mode switches, a scan
\* that is parsed, reset and the manual lock
ScannerNext ==
    \/ QrHasCameraResolve(CameraAnswers)
    \/ QrGetUserMediaResolve(CameraAnswers)
    \/ SfStartCamera
    \/ QrStartResolve(CameraAnswers)
    \/ SfStopCamera
    \/ QrLateSettle(CameraAnswers)
    \/ SfSetInputMode
    \/ SfScan({<<"0", "a">>})
    \/ ParseResolveOk
    \/ ParseResolveErr
    \/ SfReset
    \/ LockClick
    \/ LockResolveOk
    \/ LockResolveErr

SpecScanner == InitScanner /\ [][ScannerNext]_vars

\* a start() of the mounted scanner is called in this step
CaptureStarted ==
    qr'.mounted /\ qr'.starts > (IF qr.mounted THEN qr.starts ELSE 0)

\* the scanner is left in this step: a scan was read or Stop Camera was
\* clicked (isScanning falls while the camera stays available), or the
\* scanner unmounts
ScannerLeft ==
    /\ qr.mounted
    /\ \/ ~qr'.mounted
       \/ sf.scanning /\ ~sf'.scanning /\ qr'.cameraStatus = "available"

\* C21: the scanner's capture is started only after the camera probe
\* succeeded; on every exit path (a scan read, Stop, or an unmount by a mode
\* switch, a step change or a lock) the scanner is stopped; and once the
\* scanner is unmounted no scanner instance holds the camera stream, however
\* the unmount interleaves with a pending probe or start.
CameraDiscipline ==
    [][/\ CaptureStarted =>
              (qr.mounted /\ qr.probe = "done" /\ qr.cameraStatus = "available")
       /\ ScannerLeft => (~capture' /\ (qr'.mounted => ~qr'.active))
       /\ capture' => (qr'.mounted /\ qr'.scanner = "instance")]_vars

\* C21 is exercised: the scanner was unmounted by a switch to paste mode
\* while its start() was pending
UnmountedWhileStarting ==
    /\ sf.mounted /\ sf.inputMode = "paste" /\ ~qr.mounted
    /\ \E l \in qrLate : l.kind = "start"

-----------------------------------------------------------------------------
(* Dashboard: the seed modal *)

\* the dashboard of an unlocked session with its seed modal and the lock
DashNext ==
    \/ WdNavigate
    \/ WdOpenSeedModal
    \/ WdSetSeedPassword(SeedPasswords)
    \/ WdExportSeed
    \/ ExportResolveOk
    \/ ExportResolveErr
    \/ WdCloseSeedModal
    \/ RequestPath
    \/ LockClick
    \/ LockResolveOk
    \/ LockResolveErr

SpecDash == InitIdle /\ [][DashNext]_vars

\* C26: whenever the dashboard's seed modal is closed, no seed phrase is held
\* in the component state, so every opening of the modal starts at the
\* password prompt; this holds also when the modal is closed while an export
\* call is pending.
SeedClearedWhenModalClosed ==
    (wd.mounted /\ ~wd.showSeedModal) => wd.seedPhrase = "null"

-----------------------------------------------------------------------------
(* Address manager: the address displayed *)

\* an unlocked session on /addresses, as a click on Generate Address leaves it
InitAddress ==
    /\ walletInfo = "info1" /\ isLocked = FALSE /\ walletExists = "true"
    /\ location = "/addresses"
    /\ calls = {}
    /\ timeoutRef = "pending" /\ listening = TRUE
    /\ sinceArm = 0 /\ sinceReset = LongAgo /\ sinceEvent = AUTO_LOCK_TIMEOUT
    /\ uw = Unmounted /\ cw = Unmounted /\ iw = Unmounted /\ st = Unmounted
    /\ sf = Unmounted /\ isFocused = TRUE /\ unlisten = "null"
    /\ wd = Unmounted /\ am = AmInit
    /\ qr = QrUnmounted /\ qrLate = {} /\ capture = FALSE
    /\ windowEvent = "none"
    /\ InitPw

AddressNext ==
    \/ AmSetType
    \/ AmPrevious
    \/ AmNext
    \/ AmDerive
    \/ DeriveResolveOk
    \/ DeriveResolveErr

SpecAddress == InitAddress /\ [][AddressNext]_vars

\* C29: whenever an address is displayed it is the result of a derive_address
\* call made for the currently selected type and index; changing the type or
\* the index clears the displayed address; the index never goes below 0; a
\* derive call that resolves after the selection changed does not display
\* its result.
DisplayedAddressMatchesSelection ==
    am.mounted =>
        /\ am.index >= 0
        /\ am.address # NoArg => am.address = DeriveArg(am)

-----------------------------------------------------------------------------
(* Create flow: the confirmation sampling and the seed length *)

\* C27: in every reachable state of the Create flow the sampling of
\* confirmation targets on entry to confirm-seed terminates with 3 targets;
\* confirm-seed is never entered with an empty seed-word list.
SamplingTerminates ==
    cw.mounted =>
        /\ ~cw.hung
        /\ cw.step = "confirm-seed" =>
               (Len(cw.seedWords) > 0 /\ Len(cw.confirmWords) = 3)

\* C28: in every reachable state of the Create flow in which seed words are
\* displayed, confirmed or submitted, the number of seed words equals the
\* selected word count, also after a return from display-seed to options
\* and a change of the word count.
SeedLengthIsWordCount ==
    (cw.mounted /\ ~cw.hung /\ cw.step \in {"display-seed", "confirm-seed", "password"}
       /\ Len(cw.seedWords) > 0) => Len(cw.seedWords) = cw.wordCount

-----------------------------------------------------------------------------
(* Session store *)

\* the call c is answered in this step
StoreCallAnswered(c, cmd) == c.cmd = cmd /\ ~\E d \in calls' : d.id = c.id

\* C30: in every reachable state of the session store, isLocked = false
\* implies walletExists = true and walletInfo present; an answer to
\* delete_wallet either leaves the store unchanged (the call failed) or
\* leaves walletInfo absent, isLocked = true and walletExists = false.
SessionStoreConsistent ==
    [][/\ ~isLocked' => (walletExists' = "true" /\ walletInfo' # "null")
       /\ \A c \in calls :
              StoreCallAnswered(c, "delete_wallet") =>
                  \/ UNCHANGED storeVars
                  \/ walletInfo' = "null" /\ isLocked' /\ walletExists' = "false"]_vars

=============================================================================
